---- MODULE Spec2Model ----
(***************************************************************************)
(* A model of the memory-bank core of MemoriPilot:                         *)
(*   - the Mode Engine        (src/src/memory/modes/ModeManager.ts)        *)
(*   - the Document Store     (src/src/memory/MemoryManager.ts)            *)
(*   - the Change Watcher     (FileWatcher, src/src/memory/modes/Modes.ts) *)
(*   - the Template Synchronizer (ChatModeProvider,                        *)
(*                               src/src/utils/WorkspaceUtil.ts)           *)
(* Document and template contents are sequences of text chunks, so that    *)
(* string concatenation is sequence concatenation.                         *)
(***************************************************************************)
EXTENDS Integers, Sequences, FiniteSets, TLC

(***************************************************************************)
(* Bounds of the model.                                                    *)
(***************************************************************************)
MaxModeCalls == 3
MaxOps == 3
MaxCallers == 2
MaxTicks == 8
MaxRaw == 3
TickMs == 500
MaxModes == 1
MaxTplOps == 3
MaxUserEdits == 1
MaxRefreshes == 1
MaxFaults == 1
MaxToolCalls == 2
MaxQueries == 3
MaxProviderOps == 3

(***************************************************************************)
(* Generic helpers.                                                        *)
(***************************************************************************)
Range(s) == {s[i] : i \in 1..Len(s)}

Min(a, b) == IF a < b THEN a ELSE b

Max(a, b) == IF a > b THEN a ELSE b

(***************************************************************************)
(* STATE                                                                   *)
(***************************************************************************)

\* The Mode Engine
VARIABLES
  currentMode,   \* ModeManager._currentMode
  modeCalls,     \* number of Mode Engine calls made so far
  lastSetMode,   \* the latest setMode call: argument, result, mode before
  lastDetect     \* the latest detectMode call: input and result

modeVars == <<currentMode, modeCalls, lastSetMode, lastDetect>>

\* The Document Store
VARIABLES
  dirExists,   \* the memory-bank directory exists
  disk,        \* path -> content of the document file, or Missing
  rootBrief,   \* content of <workspace>/projectBrief.md, or Missing
  fileCache,   \* MemoryManager.fileCache
  summaryCache,\* MemoryManager.summaryCache
  pc,          \* caller -> "idle", or the append awaiting its write
  frame,       \* caller -> locals of the append in flight
  ops,         \* number of operations started so far
  initDone,    \* initialise() has run to its end before
  deleted,     \* the documents deleted on disk and not written since
  last         \* record of the operation that completed last

storeVars ==
  <<dirExists, disk, rootBrief, fileCache, summaryCache, pc, frame, ops,
    initDone, deleted, last>>

\* The Change Watcher
VARIABLES
  watchers,        \* FileWatcher._watchers: the file each live observer watches
  pendingChanges,  \* FileWatcher._pendingChanges: file -> timer handle, or NoTimer
  timers,          \* the live timeouts of the event loop: [id, file, due]
  timerSeq,        \* the handle setTimeout returned last
  now,             \* the clock, in milliseconds
  rawCount,        \* raw notifications delivered so far
  fileChanged,     \* the "fileChanged" events emitted, oldest first
  lastRaw,         \* file -> time of its latest raw notification, or -1
  burst,           \* file -> its current burst of raw notifications
  watchCalls,      \* watchFiles calls since the latest stopWatching, up to 2
  disposals        \* stopWatching calls since the latest watchFiles, up to 2

watcherVars ==
  <<watchers, pendingChanges, timers, timerSeq, now, rawCount, fileChanged,
    lastRaw, burst, watchCalls, disposals>>

\* The Template Synchronizer
VARIABLES
  wsTemplate,   \* mode -> <chatmodes>/<mode>.chatmode.md, or NoFile
  backupFile,   \* mode -> <chatmodes>/<mode>.chatmode.md.backup, or NoFile
  userLast,     \* mode -> the template the user saved last, or NoFile
  lastEnsure,   \* the latest recorded ensureModeTemplate call
  refresh,      \* the ensureAllModeTemplates call in progress
  lastRefresh,  \* the lists the latest ensureAllModeTemplates call returned
  tplOps,       \* number of synchronizer operations so far
  userEdits,    \* number of templates the user saved so far
  refreshes,    \* number of ensureAllModeTemplates calls so far
  faults,       \* number of file errors during those calls so far
  lastCheck,    \* the latest checkForTemplateUpdates call
  lastCompare   \* the latest comparison of two templates' versions

templateVars ==
  <<wsTemplate, backupFile, userLast, lastEnsure, refresh, lastRefresh, tplOps,
    userEdits, refreshes, faults,
    lastCheck, lastCompare>>

\* The Assistant Tools
VARIABLES
  lastTool,     \* the latest tool invocation: input, outcome and effects
  toolCalls     \* number of tool invocations so far

toolVars == <<lastTool, toolCalls>>

\* The queries of the Document Store
VARIABLES
  otherDisk,     \* path outside the enumerated documents -> content, or Missing
  otherCache,    \* the entries of MemoryManager.fileCache for those paths
  lastGet,       \* the latest getFileContent call for such a path
  lastSummaries, \* the latest getSummaries call: budget and result
  queries        \* number of queries, and of edits between them, so far

queryVars == <<otherDisk, otherCache, lastGet, lastSummaries, queries>>

\* The chat-mode provider
VARIABLES
  initialized,   \* ChatModeProvider.initialized
  disposed,      \* ChatModeProvider._disposed
  participants,  \* ChatModeProvider.participants: the ids, in order
  fsWatcher,     \* the state of the watcher setupWatchers created
  lastSync,      \* the latest synchronization of all modes
  lastEvent,     \* the latest document event and whether it refreshed
  providerOps    \* number of provider operations so far

providerVars ==
  <<initialized, disposed, participants, fsWatcher, lastSync, lastEvent,
    providerOps>>

(***************************************************************************)
(* MODE ENGINE                                                             *)
(***************************************************************************)

\* Own keys of the MODES object literal, in declaration order.
MODE_IDS == <<"architect", "code", "ask", "debug">>

\* MODES is a plain object literal, so a property lookup MODES[key] also
\* finds the properties every object inherits from Object.prototype; the
\* values found there are functions or objects, hence truthy.
ObjectPrototypeKeys == {"constructor", "toString"}

Undefined == "undefined-value"

\* MODES[modeId]: the mode (named by its id) for an own key, the inherited
\* member for a key of Object.prototype, undefined for anything else.
MODES(modeId) ==
  IF modeId \in Range(MODE_IDS) THEN modeId
  ELSE IF modeId \in ObjectPrototypeKeys THEN "Object.prototype." \o modeId
  ELSE Undefined

\* The arguments setMode is called with.  null and undefined are coerced to
\* the property keys "null" and "undefined" by the lookup.
SetModeArgs ==
  Range(MODE_IDS) \cup {"invalid", "ARCHITECT", "Code", "unknown", "",
                        "null", "undefined"} \cup ObjectPrototypeKeys

NoCall == [arg |-> "none", ret |-> FALSE, before |-> "none"]

\* MODES[modeId].triggers, each trigger as the sequence of its characters.
triggers(modeId) ==
  CASE modeId = "architect" ->
    <<<<"a", "r", "c", "h", "i", "t", "e", "c", "t">>,
      <<"d", "e", "s", "i", "g", "n">>,
      <<"s", "t", "r", "u", "c", "t", "u", "r", "e">>,
      <<"s", "y", "s", "t", "e", "m">>,
      <<"p", "a", "t", "t", "e", "r", "n">>,
      <<"d", "e", "c", "i", "s", "i", "o", "n">>>>
    [] modeId = "code" ->
    <<<<"c", "o", "d", "e">>,
      <<"i", "m", "p", "l", "e", "m", "e", "n", "t">>,
      <<"p", "r", "o", "g", "r", "a", "m">>,
      <<"w", "r", "i", "t", "e">>,
      <<"b", "u", "i", "l", "d">>,
      <<"f", "e", "a", "t", "u", "r", "e">>>>
    [] modeId = "ask" ->
    <<<<"a", "s", "k">>,
      <<"e", "x", "p", "l", "a", "i", "n">>,
      <<"w", "h", "a", "t">>,
      <<"w", "h", "y">>,
      <<"h", "o", "w">>,
      <<"d", "e", "s", "c", "r", "i", "b", "e">>,
      <<"t", "e", "l", "l">>>>
    [] modeId = "debug" ->
    <<<<"d", "e", "b", "u", "g">>,
      <<"f", "i", "x">>,
      <<"i", "s", "s", "u", "e">>,
      <<"b", "u", "g">>,
      <<"p", "r", "o", "b", "l", "e", "m">>,
      <<"e", "r", "r", "o", "r">>,
      <<"f", "a", "i", "l">>>>
    [] OTHER -> <<>>

\* The texts detectMode is called with, as sequences of characters.
Text_understandArchitecture ==
  <<"I", " ", "w", "a", "n", "t", " ", "t", "o", " ", "u", "n", "d", "e",
    "r", "s", "t", "a", "n", "d", " ", "t", "h", "e", " ", "a", "r", "c",
    "h", "i", "t", "e", "c", "t", "u", "r", "e">>

Text_designStructure ==
  <<"I", " ", "n", "e", "e", "d", " ", "t", "o", " ", "d", "e", "s", "i",
    "g", "n", " ", "t", "h", "e", " ", "s", "y", "s", "t", "e", "m", " ",
    "s", "t", "r", "u", "c", "t", "u", "r", "e">>

Text_implementLogin ==
  <<"I", " ", "n", "e", "e", "d", " ", "t", "o", " ", "i", "m", "p", "l",
    "e", "m", "e", "n", "t", " ", "t", "h", "e", " ", "l", "o", "g", "i",
    "n", " ", "f", "u", "n", "c", "t", "i", "o", "n">>

Text_bugAuthentication ==
  <<"T", "h", "e", "r", "e", " ", "i", "s", " ", "a", " ", "b", "u", "g",
    " ", "i", "n", " ", "t", "h", "e", " ", "a", "u", "t", "h", "e", "n",
    "t", "i", "c", "a", "t", "i", "o", "n">>

Text_bugLogin ==
  <<"t", "h", "e", "r", "e", " ", "i", "s", " ", "a", " ", "b", "u", "g",
    " ", "i", "n", " ", "t", "h", "e", " ", "l", "o", "g", "i", "n">>

Text_empty ==
  <<>>

Text_fixDesign ==
  <<"F", "i", "x", " ", "t", "h", "e", " ", "D", "E", "S", "I", "G", "N">>

Text_hello ==
  <<"H", "e", "l", "l", "o">>

DetectInputs ==
  {Text_understandArchitecture,
   Text_designStructure,
   Text_implementLogin,
   Text_bugAuthentication,
   Text_bugLogin,
   Text_empty,
   Text_fixDesign,
   Text_hello}

UpperCase ==
  <<"A", "B", "C", "D", "E", "F", "G", "H", "I", "J", "K", "L", "M", "N",
    "O", "P", "Q", "R", "S", "T", "U", "V", "W", "X", "Y", "Z">>

LowerCase ==
  <<"a", "b", "c", "d", "e", "f", "g", "h", "i", "j", "k", "l", "m", "n",
    "o", "p", "q", "r", "s", "t", "u", "v", "w", "x", "y", "z">>

\* String.prototype.toLowerCase() on a sequence of characters.
toLowerCase(input) ==
  [i \in 1..Len(input) |->
     IF \E k \in 1..Len(UpperCase) : UpperCase[k] = input[i]
     THEN LowerCase[CHOOSE k \in 1..Len(UpperCase) : UpperCase[k] = input[i]]
     ELSE input[i]]

\* String.prototype.includes(trigger): the search from each position on.
RECURSIVE includesFrom(_, _, _)
includesFrom(text, trigger, pos) ==
  IF pos + Len(trigger) - 1 > Len(text) THEN FALSE
  ELSE IF SubSeq(text, pos, pos + Len(trigger) - 1) = trigger THEN TRUE
  ELSE includesFrom(text, trigger, pos + 1)

\* The trigger is looked for at the start of the text only.
includes_atStart(text, trigger) ==
  Len(trigger) <= Len(text) /\ SubSeq(text, 1, Len(trigger)) = trigger

includes(text, trigger) == includesFrom(text, trigger, 1)

Null == "null-value"

\* The loop of detectMode over Object.entries(MODES) from entry i on.
RECURSIVE detectModeFrom(_, _)
detectModeFrom(normalizedInput, i) ==
  IF i > Len(MODE_IDS) THEN Null
  ELSE IF \E k \in 1..Len(triggers(MODE_IDS[i])) :
            includes(normalizedInput, triggers(MODE_IDS[i])[k])
       THEN MODE_IDS[i]
       ELSE detectModeFrom(normalizedInput, i + 1)

\* ModeManager.detectMode(input) as a function of its input.
DetectMode(input) == detectModeFrom(toLowerCase(input), 1)

NoDetect == [ran |-> FALSE]

InitModes ==
  /\ currentMode = MODES("ask")
  /\ modeCalls = 0
  /\ lastSetMode = NoCall
  /\ lastDetect = NoDetect

setMode(modeId) ==
  /\ modeCalls < MaxModeCalls
  /\ modeCalls' = modeCalls + 1
  /\ LET mode == MODES(modeId) IN
       IF mode = Undefined
       THEN /\ currentMode' = currentMode
            /\ lastSetMode' = [arg |-> modeId, ret |-> FALSE, before |-> currentMode]
       ELSE /\ currentMode' = mode
            /\ lastSetMode' = [arg |-> modeId, ret |-> TRUE, before |-> currentMode]
  /\ UNCHANGED lastDetect
  /\ UNCHANGED <<storeVars, watcherVars, templateVars, toolVars, queryVars, providerVars>>

\* ModeManager.detectMode(input): the active mode is left as it is.
detectMode(input) ==
  /\ modeCalls < MaxModeCalls
  /\ modeCalls' = modeCalls + 1
  /\ lastDetect' = [ran |-> TRUE, input |-> input, ret |-> DetectMode(input)]
  /\ UNCHANGED <<currentMode, lastSetMode>>
  /\ UNCHANGED <<storeVars, watcherVars, templateVars, toolVars, queryVars, providerVars>>

NextModes ==
  \/ \E modeId \in SetModeArgs : setMode(modeId)
  \/ \E input \in DetectInputs : detectMode(input)

(***************************************************************************)
(* DOCUMENT STORE                                                          *)
(***************************************************************************)

\* Object.keys(FILE_TEMPLATES), in declaration order.
FILE_TEMPLATES ==
  <<"memory-bank/productContext.md", "memory-bank/progress.md",
    "memory-bank/decisionLog.md", "memory-bank/activeContext.md">>

\* Object.keys(OPTIONAL_FILE_TEMPLATES), in declaration order.
OPTIONAL_FILE_TEMPLATES ==
  <<"memory-bank/projectBrief.md", "memory-bank/architect.md",
    "memory-bank/systemPatterns.md">>

ALL_FILE_TEMPLATES == FILE_TEMPLATES \o OPTIONAL_FILE_TEMPLATES

MemoryFile == Range(ALL_FILE_TEMPLATES)

\* The template text of a document, as one chunk.
Template(path) == <<"template of " \o path>>

\* A file that does not exist, and a cache without an entry for a path.
Missing == <<"ENOENT">>

NoEntry == <<"no cache entry">>

\* The documents the callers of the model operate on, the callers that may
\* have an append in flight, and the text each caller appends.
OpFiles == {"memory-bank/decisionLog.md", "memory-bank/projectBrief.md"}

Callers == 1..MaxCallers

Entry(c) == <<"entry " \o ToString(c)>>

WrittenText == <<"written text">>

UserText == <<"user edit">>

RootBriefText == <<"root projectBrief.md">>

\* Buffer.byteLength of a chunk: the templates have the sizes of
\* FileTemplates.ts, the texts of the model are short.
ChunkBytes(chunk) ==
  CASE chunk = "template of memory-bank/productContext.md" -> 182
    [] chunk = "template of memory-bank/progress.md" -> 105
    [] chunk = "template of memory-bank/decisionLog.md" -> 80
    [] chunk = "template of memory-bank/activeContext.md" -> 77
    [] chunk = "template of memory-bank/projectBrief.md" -> 116
    [] chunk = "template of memory-bank/architect.md" -> 369
    [] chunk = "template of memory-bank/systemPatterns.md" -> 158
    [] chunk = "\n" -> 1
    [] chunk = "..." -> 3
    [] OTHER -> 20

RECURSIVE byteLength(_)
byteLength(content) ==
  IF content = <<>> THEN 0
  ELSE ChunkBytes(Head(content)) + byteLength(Tail(content))

NoFrame == [path |-> "none", existing |-> <<>>, arg |-> <<>>]

NoOp == [op |-> "none"]

InitStore ==
  /\ dirExists = FALSE
  /\ disk = [p \in MemoryFile |-> Missing]
  /\ rootBrief \in {Missing, RootBriefText}
  /\ fileCache = [p \in MemoryFile |-> NoEntry]
  /\ summaryCache = [p \in MemoryFile |-> NoEntry]
  /\ pc = [c \in Callers |-> "idle"]
  /\ frame = [c \in Callers |-> NoFrame]
  /\ ops = 0
  /\ initDone = FALSE
  /\ deleted = {}
  /\ last = NoOp

\* readFile answering a failed read with the empty string, nothing created.
ReadFile_noRecreate(d, cache, path, ioError) ==
  IF d[path] # Missing /\ ~ioError
  THEN [ret |-> d[path], disk |-> d,
        cache |-> [cache EXCEPT ![path] = d[path]]]
  ELSE [ret |-> <<>>, disk |-> d, cache |-> cache]

\* MemoryManager.readFile as a function of the file system and the cache:
\* the content returned, and the file system and cache it leaves.  A failed
\* read (file missing, or any other I/O error) is answered from the
\* template through writeFile, which sets file and cache.
ReadFile(d, cache, path, ioError) ==
  IF d[path] # Missing /\ ~ioError
  THEN [ret |-> d[path], disk |-> d,
        cache |-> [cache EXCEPT ![path] = d[path]]]
  ELSE [ret |-> Template(path),
        disk |-> [d EXCEPT ![path] = Template(path)],
        cache |-> [cache EXCEPT ![path] = Template(path)]]

\* What getFileContent(path) returns: the cache entry when it is truthy
\* (present and not the empty string), else the result of readFile.
GetFileContent(d, cache, path) ==
  IF cache[path] # NoEntry /\ cache[path] # <<>>
  THEN [ret |-> cache[path], disk |-> d, cache |-> cache]
  ELSE LET r == ReadFile(d, cache, path, FALSE) IN
         [ret |-> r.ret, disk |-> r.disk,
          cache |-> [r.cache EXCEPT ![path] = r.ret]]

Started == ops < MaxOps /\ ops' = ops + 1

\* The operation recorded as the latest, and the deleted files still missing.
Completed(rec) ==
  /\ last' = rec
  /\ deleted' = {p \in deleted : disk'[p] = Missing}

writeFile(path, content) ==
  /\ Started
  /\ disk' = [disk EXCEPT ![path] = content]
  /\ fileCache' = [fileCache EXCEPT ![path] = content]
  /\ dirExists' = TRUE
  /\ Completed([op |-> "writeFile", path |-> path, persisted |-> content])
  /\ UNCHANGED <<rootBrief, summaryCache, pc, frame, initDone>>
  /\ UNCHANGED <<modeVars, watcherVars, templateVars, toolVars, queryVars, providerVars>>

\* appendToFile up to its second await: readFile has returned.
appendToFile_read(c, path, content) ==
  /\ pc[c] = "idle"
  /\ Started
  /\ LET r == ReadFile(disk, fileCache, path, FALSE) IN
       /\ disk' = r.disk
       /\ fileCache' = r.cache
       /\ dirExists' = (dirExists \/ r.disk # disk)
       /\ frame' = [frame EXCEPT ![c] =
                      [path |-> path, existing |-> r.ret, arg |-> content]]
  /\ pc' = [pc EXCEPT ![c] = "appendToFile"]
  /\ Completed([op |-> "appendToFile_read", caller |-> c, path |-> path])
  /\ UNCHANGED <<rootBrief, summaryCache, initDone>>
  /\ UNCHANGED <<modeVars, watcherVars, templateVars, toolVars, queryVars, providerVars>>

\* The content appendToFile writes, from what it read and its argument.
appendToFile_newContent(existingContent, content) == existingContent \o content

\* appendToFile holding a per-document lock: the entry is added to the
\* content the file has at the time of the write.
appendToFile_write_locked(c) ==
  /\ pc[c] = "appendToFile"
  /\ LET f == frame[c]
         newContent == appendToFile_newContent(disk[f.path], f.arg) IN
       /\ disk' = [disk EXCEPT ![f.path] = newContent]
       /\ fileCache' = [fileCache EXCEPT ![f.path] = newContent]
       /\ Completed([op |-> "appendToFile", caller |-> c, path |-> f.path,
                     existing |-> f.existing, arg |-> f.arg,
                     diskBefore |-> disk[f.path], persisted |-> newContent])
  /\ dirExists' = TRUE
  /\ pc' = [pc EXCEPT ![c] = "idle"]
  /\ frame' = [frame EXCEPT ![c] = NoFrame]
  /\ UNCHANGED <<rootBrief, summaryCache, ops, initDone>>
  /\ UNCHANGED <<modeVars, watcherVars, templateVars, toolVars, queryVars, providerVars>>

\* appendToFile from the write on: the file is written, the cache is set.
appendToFile_write(c) ==
  /\ pc[c] = "appendToFile"
  /\ LET f == frame[c]
         newContent == appendToFile_newContent(f.existing, f.arg) IN
       /\ disk' = [disk EXCEPT ![f.path] = newContent]
       /\ fileCache' = [fileCache EXCEPT ![f.path] = newContent]
       /\ Completed([op |-> "appendToFile", caller |-> c, path |-> f.path,
                     existing |-> f.existing, arg |-> f.arg,
                     diskBefore |-> disk[f.path], persisted |-> newContent])
  /\ dirExists' = TRUE
  /\ pc' = [pc EXCEPT ![c] = "idle"]
  /\ frame' = [frame EXCEPT ![c] = NoFrame]
  /\ UNCHANGED <<rootBrief, summaryCache, ops, initDone>>
  /\ UNCHANGED <<modeVars, watcherVars, templateVars, toolVars, queryVars, providerVars>>

\* appendLine up to its second await: readFile has returned.
appendLine_read(c, path, line) ==
  /\ pc[c] = "idle"
  /\ Started
  /\ LET r == ReadFile(disk, fileCache, path, FALSE) IN
       /\ disk' = r.disk
       /\ fileCache' = r.cache
       /\ dirExists' = (dirExists \/ r.disk # disk)
       /\ frame' = [frame EXCEPT ![c] =
                      [path |-> path, existing |-> r.ret, arg |-> line]]
  /\ pc' = [pc EXCEPT ![c] = "appendLine"]
  /\ Completed([op |-> "appendLine_read", caller |-> c, path |-> path])
  /\ UNCHANGED <<rootBrief, summaryCache, initDone>>
  /\ UNCHANGED <<modeVars, watcherVars, templateVars, toolVars, queryVars, providerVars>>

\* The cache entry appendLine leaves for the path it wrote: it does not
\* touch the cache after the write.
appendLine_cache(cache, path, content) == cache

\* appendLine from the write on: the file is written.
appendLine_write(c) ==
  /\ pc[c] = "appendLine"
  /\ LET f == frame[c]
         content == f.existing \o <<"\n">> \o f.arg \o <<"\n">> IN
       /\ disk' = [disk EXCEPT ![f.path] = content]
       /\ fileCache' = appendLine_cache(fileCache, f.path, content)
       /\ Completed([op |-> "appendLine", caller |-> c, path |-> f.path,
                     existing |-> f.existing, arg |-> f.arg,
                     persisted |-> content])
  /\ dirExists' = TRUE
  /\ pc' = [pc EXCEPT ![c] = "idle"]
  /\ frame' = [frame EXCEPT ![c] = NoFrame]
  /\ UNCHANGED <<rootBrief, summaryCache, ops, initDone>>
  /\ UNCHANGED <<modeVars, watcherVars, templateVars, toolVars, queryVars, providerVars>>

\* A call of readFile, ioError saying whether the read fails although the
\* file exists.
readFile(path, ioError) ==
  /\ Started
  /\ LET r == ReadFile(disk, fileCache, path, ioError) IN
       /\ disk' = r.disk
       /\ fileCache' = r.cache
       /\ dirExists' = (dirExists \/ r.disk # disk)
       /\ Completed([op |-> "readFile", path |-> path,
                     wasMissing |-> (disk[path] = Missing),
                     wasDeleted |-> (path \in deleted),
                     ioError |-> ioError, ret |-> r.ret])
  /\ UNCHANGED <<rootBrief, summaryCache, pc, frame, initDone>>
  /\ UNCHANGED <<modeVars, watcherVars, templateVars, toolVars, queryVars, providerVars>>

getFileContent(path) ==
  /\ Started
  /\ LET r == GetFileContent(disk, fileCache, path) IN
       /\ disk' = r.disk
       /\ fileCache' = r.cache
       /\ dirExists' = (dirExists \/ r.disk # disk)
       /\ Completed([op |-> "getFileContent", path |-> path, ret |-> r.ret])
  /\ UNCHANGED <<rootBrief, summaryCache, pc, frame, initDone>>
  /\ UNCHANGED <<modeVars, watcherVars, templateVars, toolVars, queryVars, providerVars>>

(***************************************************************************)
(* CHANGE WATCHER                                                          *)
(***************************************************************************)

\* FileWatcher._batchDelay, in milliseconds.
BatchDelay == 2000

NoTimer == 0

\* A burst: how many raw notifications it has, how many events it was
\* answered with, when the latest of them fired, and whether its timer was
\* cancelled by dispose().
NoBurst == [len |-> 0, events |-> 0, firedAt |-> -1, disposed |-> FALSE]

InitWatcher ==
  /\ watchers = <<>>
  /\ pendingChanges = [f \in MemoryFile |-> NoTimer]
  /\ timers = {}
  /\ timerSeq = 0
  /\ now = 0
  /\ rawCount = 0
  /\ fileChanged = <<>>
  /\ lastRaw = [f \in MemoryFile |-> -1]
  /\ burst = [f \in MemoryFile |-> NoBurst]
  /\ watchCalls = 0
  /\ disposals = 0

\* clearTimeout forgotten: the earlier timeout stays live.
clearTimeout_forgotten(ts, handle) == ts

\* clearTimeout(handle): the timeout is no longer live.
clearTimeout(ts, handle) == {t \in ts : t.id # handle}

\* The due time setTimeout(callback, _batchDelay) gives the new timeout.
TimeoutDue(t) == t + BatchDelay

\* The observers are kept when they should be released.
ReleasedWatchers_kept(ws) == ws

\* The first half of FileWatcher.dispose(): every observer is disposed of
\* and _watchers is emptied.
ReleasedWatchers(ws) == <<>>

\* The timeouts are left running when the record is emptied.
ClearPending_timersLeft ==
  /\ timers' = timers
  /\ pendingChanges' = [f \in MemoryFile |-> NoTimer]
  /\ burst' = [f \in MemoryFile |->
                 IF pendingChanges[f] # NoTimer
                 THEN [burst[f] EXCEPT !.disposed = TRUE] ELSE burst[f]]

\* The second half of FileWatcher.dispose(): every timeout recorded in
\* _pendingChanges is cleared and the record is emptied.
ClearPending ==
  /\ timers' = {t \in timers : t.id \notin {pendingChanges[f] : f \in MemoryFile}}
  /\ pendingChanges' = [f \in MemoryFile |-> NoTimer]
  /\ burst' = [f \in MemoryFile |->
                 IF pendingChanges[f] # NoTimer
                 THEN [burst[f] EXCEPT !.disposed = TRUE] ELSE burst[f]]

\* FileWatcher.dispose(): the observers are released, the timeouts cleared.
Dispose ==
  /\ watchers' = ReleasedWatchers(watchers)
  /\ ClearPending

\* FileWatcher.watchFiles(files): dispose(), then one observer per file is
\* pushed to _watchers.
WatchFiles(files) ==
  /\ ClearPending
  /\ watchers' = ReleasedWatchers(watchers) \o files
  /\ watchCalls' = Min(watchCalls + 1, 2)
  /\ disposals' = 0

\* MemoryManager.startWatching()
startWatching ==
  /\ WatchFiles(ALL_FILE_TEMPLATES)
  /\ UNCHANGED <<timerSeq, now, rawCount, fileChanged, lastRaw>>
  /\ UNCHANGED <<modeVars, storeVars, templateVars, toolVars, queryVars, providerVars>>

\* MemoryManager.stopWatching()
stopWatching ==
  /\ Dispose
  /\ watchCalls' = 0
  /\ disposals' = Min(disposals + 1, 2)
  /\ UNCHANGED <<timerSeq, now, rawCount, fileChanged, lastRaw>>
  /\ UNCHANGED <<modeVars, storeVars, templateVars, toolVars, queryVars, providerVars>>

\* FileWatcher._handleFileChange(file), called by the observer at index i
\* on a change or a creation of its file.
HandleFileChange(i) ==
  LET file == watchers[i]
      existingTimeout == pendingChanges[file]
      kept == IF existingTimeout # NoTimer
              THEN clearTimeout(timers, existingTimeout) ELSE timers
      timeout == [id |-> timerSeq + 1, file |-> file, due |-> TimeoutDue(now)]
      sameBurst == lastRaw[file] >= 0 /\ now - lastRaw[file] < BatchDelay
  IN
  /\ rawCount < MaxRaw
  /\ rawCount' = rawCount + 1
  /\ timers' = kept \cup {timeout}
  /\ timerSeq' = timerSeq + 1
  /\ pendingChanges' = [pendingChanges EXCEPT ![file] = timeout.id]
  /\ lastRaw' = [lastRaw EXCEPT ![file] = now]
  /\ burst' = [burst EXCEPT ![file] =
                 IF sameBurst /\ ~burst[file].disposed
                 THEN [@ EXCEPT !.len = @ + 1]
                 ELSE [NoBurst EXCEPT !.len = 1]]
  /\ UNCHANGED <<watchers, now, fileChanged, watchCalls, disposals>>

\* A raw file system notification for a watched document of the model.
RawChange ==
  \E i \in 1..Len(watchers) :
    /\ watchers[i] \in OpFiles
    /\ HandleFileChange(i)
    /\ UNCHANGED <<modeVars, storeVars, templateVars, toolVars, queryVars, providerVars>>

\* A live timeout expires: the callback emits "fileChanged" and deletes
\* the file's pending-timer record.
TimerFire ==
  \E t \in timers :
    /\ now >= t.due
    /\ timers' = timers \ {t}
    /\ fileChanged' = Append(fileChanged, [file |-> t.file, timestamp |-> now])
    /\ pendingChanges' = [pendingChanges EXCEPT ![t.file] = NoTimer]
    /\ burst' = [burst EXCEPT ![t.file] =
                   [@ EXCEPT !.events = @ + 1, !.firedAt = now]]
    /\ UNCHANGED <<watchers, timerSeq, now, rawCount, lastRaw, watchCalls,
                   disposals>>
    /\ UNCHANGED <<modeVars, storeVars, templateVars, toolVars, queryVars, providerVars>>

\* Time passes.
Tick ==
  /\ now < MaxTicks * TickMs
  /\ now' = now + TickMs
  /\ UNCHANGED <<watchers, pendingChanges, timers, timerSeq, rawCount,
                 fileChanged, lastRaw, burst, watchCalls, disposals>>
  /\ UNCHANGED <<modeVars, storeVars, templateVars, toolVars, queryVars, providerVars>>

NextWatcher ==
  \/ startWatching
  \/ stopWatching
  \/ RawChange
  \/ TimerFire
  \/ Tick

(***************************************************************************)
(* DOCUMENT STORE: initialisation and the writers outside the store        *)
(***************************************************************************)

\* The documents after the two creation loops of initialise(): a missing
\* file is created from its template, an existing one is left alone.
\* Only the required documents are created, the optional ones are not.
CreateMissing_requiredOnly(d) ==
  [p \in MemoryFile |->
     IF d[p] = Missing /\ p \in Range(FILE_TEMPLATES) THEN Template(p)
     ELSE d[p]]

CreateMissing(d) ==
  [p \in MemoryFile |-> IF d[p] = Missing THEN Template(p) ELSE d[p]]

\* The documents after initialise() looked for <workspace>/projectBrief.md:
\* if it can be read, its content is written over the project brief.
CopyRootBrief(d, root) ==
  IF root # Missing
  THEN [d EXCEPT !["memory-bank/projectBrief.md"] = root]
  ELSE d

\* MemoryManager.initialise().  answer is what the user replies when asked
\* whether the missing memory-bank directory may be created; the extension
\* development host does not ask, which is the answer "Yes".
initialise(answer) ==
  /\ Started
  /\ IF ~dirExists /\ answer # "Yes"
     THEN /\ UNCHANGED <<dirExists, disk, initDone, watcherVars>>
          /\ Completed([op |-> "initialise", cancelled |-> TRUE])
     ELSE /\ dirExists' = TRUE
          /\ disk' = CopyRootBrief(CreateMissing(disk), rootBrief)
          /\ WatchFiles(ALL_FILE_TEMPLATES)
          /\ UNCHANGED <<timerSeq, now, rawCount, fileChanged, lastRaw>>
          /\ initDone' = TRUE
          /\ Completed([op |-> "initialise", cancelled |-> FALSE])
  /\ UNCHANGED <<rootBrief, summaryCache, fileCache, pc, frame>>
  /\ UNCHANGED <<modeVars, templateVars, toolVars, queryVars, providerVars>>

\* CopilotCommandHandler.scanWorkspace(): the product context is written
\* with workspace.fs.writeFile, and so are the system patterns when that
\* file can be read and is shorter than 100 bytes.
scanWorkspace ==
  /\ Started
  /\ LET product == [disk EXCEPT !["memory-bank/productContext.md"] =
                       <<"scanned product context">>]
         patterns == disk["memory-bank/systemPatterns.md"] IN
       disk' = IF patterns # Missing /\ byteLength(patterns) < 100
               THEN [product EXCEPT !["memory-bank/systemPatterns.md"] =
                       <<"scanned system patterns">>]
               ELSE product
  /\ dirExists' = TRUE
  /\ Completed([op |-> "scanWorkspace"])
  /\ UNCHANGED <<rootBrief, summaryCache, fileCache, pc, frame, initDone>>
  /\ UNCHANGED <<modeVars, watcherVars, templateVars, toolVars, queryVars, providerVars>>

\* The user edits or deletes a document file outside the extension.
ExternalEdit(path) ==
  /\ Started
  /\ disk' = [disk EXCEPT ![path] = UserText]
  /\ dirExists' = TRUE
  /\ Completed([op |-> "ExternalEdit", path |-> path])
  /\ UNCHANGED <<rootBrief, summaryCache, fileCache, pc, frame, initDone>>
  /\ UNCHANGED <<modeVars, watcherVars, templateVars, toolVars, queryVars, providerVars>>

ExternalDelete(path) ==
  /\ Started
  /\ disk[path] # Missing
  /\ disk' = [disk EXCEPT ![path] = Missing]
  /\ last' = [op |-> "ExternalDelete", path |-> path]
  /\ deleted' = deleted \cup {path}
  /\ UNCHANGED <<dirExists, rootBrief, summaryCache, fileCache, pc, frame,
                 initDone>>
  /\ UNCHANGED <<modeVars, watcherVars, templateVars, toolVars, queryVars, providerVars>>

\* The first paragraph of a template of FileTemplates.ts is its title
\* line, which a blank line follows; the texts of the model have no blank
\* line inside.
TemplateChunks == {Template(p)[1] : p \in MemoryFile}

TitleOf(chunk) == "title of " \o chunk

\* content.split(/\n\s*\n/).filter(p => p.trim().length > 0)[0] || "":
\* the chunks up to the first blank line after some text; acc is the text
\* collected so far.
RECURSIVE firstPara(_, _)
firstPara(content, acc) ==
  IF content = <<>> THEN acc
  ELSE IF Head(content) \in TemplateChunks
       THEN Append(acc, TitleOf(Head(content)))
  ELSE IF Head(content) = "\n" /\ Len(content) > 1 /\ content[2] = "\n"
       THEN IF \A i \in 1..Len(acc) : acc[i] = "\n"
            THEN firstPara(Tail(Tail(content)), <<>>)
            ELSE acc
  ELSE firstPara(Tail(content), Append(acc, Head(content)))

\* LlmSummary.createSimpleSummary(content, maxTokens): the first
\* paragraph, cut to maxTokens * 4 characters with an ellipsis when it is
\* longer.
createSimpleSummary(content, maxTokens) ==
  LET para == firstPara(content, <<>>)
      tokenLimit == maxTokens * 4 IN
  IF byteLength(para) <= tokenLimit THEN para
  ELSE <<"substring(0, " \o ToString(tokenLimit - 3) \o ") of">> \o para
         \o <<"...">>

\* LlmSummary.summarise(content, maxTokens)
summarise(content, maxTokens) == createSimpleSummary(content, maxTokens)

\* The fileChanged events the watcher delivers to the store.
FileChangeEvents ==
  [file : OpFiles, timestamp : {BatchDelay, BatchDelay + TickMs}]

\* The summary cache is left as it was.
summaryCacheSet_skipped(cache, file, summary) == cache

\* this.summaryCache.set(file, summary)
summaryCacheSet(cache, file, summary) == [cache EXCEPT ![file] = summary]

\* MemoryManager.handleFileChange(event), the listener of the watcher's
\* fileChanged events: the document is read, cache and summary are set
\* and contentChanged is emitted.  ioError says whether the read fails
\* although the file exists.
handleFileChange(event, ioError) ==
  /\ Started
  /\ LET r == ReadFile(disk, fileCache, event.file, ioError)
         summary == summarise(r.ret, 100) IN
       /\ disk' = r.disk
       /\ fileCache' = [r.cache EXCEPT ![event.file] = r.ret]
       /\ summaryCache' = summaryCacheSet(summaryCache, event.file, summary)
       /\ dirExists' = (dirExists \/ r.disk # disk)
       /\ Completed([op |-> "handleFileChange", file |-> event.file,
                     timestamp |-> event.timestamp,
                     cacheBefore |-> fileCache[event.file],
                     diskBefore |-> disk[event.file],
                     emitted |-> [event |-> "contentChanged",
                                  file |-> event.file, summary |-> summary,
                                  timestamp |-> event.timestamp]])
  /\ UNCHANGED <<rootBrief, pc, frame, initDone>>
  /\ UNCHANGED <<modeVars, watcherVars, templateVars, toolVars, queryVars, providerVars>>

ActiveContextFile == "memory-bank/activeContext.md"

\* The lines of FILE_TEMPLATES["memory-bank/activeContext.md"].
ActiveContextTemplateLines ==
  <<"# Active Context", "", "## Current Goals", "", "- Goal 1", "",
    "## Current Blockers", "", "- None yet">>

\* String.prototype.trim() on the lines and texts of the model.
trim(str) ==
  CASE str = "  ## Current Goals  " -> "## Current Goals"
    [] str = "  second goal " -> "second goal"
    [] str = "   " -> ""
    [] str = "\n" -> ""
    [] OTHER -> str

\* line.startsWith('## ') on the lines of the model.
startsWithSectionMark(line) ==
  line \in {"## Current Goals", "## Current Blockers", "## Notes"}

\* A document is the sequence of its lines with a "\n" chunk between two
\* lines; an empty line has no chunk of its own.
lineChunk(line) == IF line = "" THEN <<>> ELSE <<line>>

\* lines.join('\n')
RECURSIVE join(_)
join(lines) ==
  IF lines = <<>> THEN <<>>
  ELSE IF Len(lines) = 1 THEN lineChunk(lines[1])
  ELSE lineChunk(lines[1]) \o <<"\n">> \o join(Tail(lines))

\* The chunks of a document's text: the template chunk stands for the
\* lines of the template.
TextOf(content) ==
  IF content = Template(ActiveContextFile)
  THEN join(ActiveContextTemplateLines) ELSE content

\* content.split(/\r?\n/) from the text collected for the current line on.
RECURSIVE splitLines(_, _)
splitLines(text, line) ==
  IF text = <<>> THEN <<line>>
  ELSE IF Head(text) = "\n" THEN <<line>> \o splitLines(Tail(text), "")
  ELSE splitLines(Tail(text), line \o Head(text))

\* !content.trim()
isBlank(content) ==
  \A i \in 1..Len(TextOf(content)) : trim(TextOf(content)[i]) = ""

\* Array.prototype.findIndex, with the indices of JavaScript: hits[i + 1]
\* is the callback's result on the line of index i; the first index from 0
\* whose hit is true, or -1.
findIndex(hits) ==
  IF \E i \in 0..(Len(hits) - 1) : hits[i + 1]
  THEN CHOOSE i \in 0..(Len(hits) - 1) :
         /\ hits[i + 1]
         /\ \A j \in 0..(i - 1) : ~hits[j + 1]
  ELSE -1

\* Array.prototype.slice(from, to) and slice(from)
slice(lines, from, to) == SubSeq(lines, from + 1, to)

sliceFrom(lines, from) == SubSeq(lines, from + 1, Len(lines))

\* context.split(/\r?\n/).map(trim).filter(Boolean).map(goal => `- ${goal}`)
newGoals(context) ==
  LET trimmed == [i \in 1..Len(splitLines(context, "")) |->
                    trim(splitLines(context, "")[i])]
      kept == SelectSeq(trimmed, LAMBDA goal : goal # "") IN
  [i \in 1..Len(kept) |-> "- " \o kept[i]]

\* Every line after the goals is dropped.
afterLines_none(lines, endIdx) == <<>>

\* endIdx !== -1 ? lines.slice(endIdx) : []
afterLines(lines, endIdx) ==
  IF endIdx # -1 THEN sliceFrom(lines, endIdx) ELSE <<>>

\* A document without the section gets the section appended.
UpdateActiveContext_repair(read, context) ==
  LET content == IF isBlank(read) THEN Template(ActiveContextFile) ELSE read
      lines == splitLines(TextOf(content), "")
      startIdx == findIndex([i \in 1..Len(lines) |->
                               trim(lines[i]) = "## Current Goals"])
      endIdx == findIndex([i \in 1..Len(lines) |->
                             i - 1 > startIdx
                             /\ startsWithSectionMark(lines[i])])
      before == IF startIdx = -1 THEN Append(lines, "## Current Goals")
                ELSE slice(lines, 0, startIdx + 1)
      after == IF startIdx = -1 THEN <<>> ELSE afterLines(lines, endIdx) IN
  [threw |-> FALSE,
   updated |-> join(before \o <<"">> \o newGoals(context) \o <<"">> \o after)]

\* updateActiveContext(context) as a function of the content readFile
\* returned: whether it throws, and the content it writes otherwise.
UpdateActiveContext(read, context) ==
  LET content == IF isBlank(read) THEN Template(ActiveContextFile) ELSE read
      lines == splitLines(TextOf(content), "")
      startIdx == findIndex([i \in 1..Len(lines) |->
                               trim(lines[i]) = "## Current Goals"])
      endIdx == findIndex([i \in 1..Len(lines) |->
                             i - 1 > startIdx
                             /\ startsWithSectionMark(lines[i])])
      before == slice(lines, 0, startIdx + 1)
      after == afterLines(lines, endIdx) IN
  IF startIdx = -1 THEN [threw |-> TRUE, updated |-> read]
  ELSE [threw |-> FALSE,
        updated |-> join(before \o <<"">> \o newGoals(context) \o <<"">>
                         \o after)]

\* The texts updateActiveContext is called with.
Contexts ==
  {<<"Working on authentication system">>,
   <<"  second goal ", "\n", "\n", "third goal">>,
   <<>>}

\* updateActiveContext has no this.emit(...): the call emits no event.
NoEvent == [event |-> "none"]

\* MemoryManager.updateActiveContext(context): the document is read, the
\* body of its goals section is replaced and the result is written with
\* writeFile; without the section header the call throws.
updateActiveContext(context) ==
  /\ Started
  /\ LET r == ReadFile(disk, fileCache, ActiveContextFile, FALSE)
         u == UpdateActiveContext(r.ret, context) IN
       /\ disk' = IF u.threw THEN r.disk
                  ELSE [r.disk EXCEPT ![ActiveContextFile] = u.updated]
       /\ fileCache' = IF u.threw THEN r.cache
                       ELSE [r.cache EXCEPT ![ActiveContextFile] = u.updated]
       /\ dirExists' = (dirExists \/ r.disk # disk \/ ~u.threw)
       /\ Completed([op |-> "updateActiveContext", path |-> ActiveContextFile,
                     context |-> context, read |-> r.ret,
                     diskBefore |-> disk[ActiveContextFile],
                     cacheBefore |-> fileCache[ActiveContextFile],
                     threw |-> u.threw, emitted |-> NoEvent])
  /\ UNCHANGED <<rootBrief, summaryCache, pc, frame, initDone>>
  /\ UNCHANGED <<modeVars, watcherVars, templateVars, toolVars, queryVars, providerVars>>

\* The active-context documents the user saves: with the goals section
\* and a section after it, with an indented header and nothing after the
\* goals, without the section, and blank.
ActiveContextDocs ==
  {<<"# My Focus", "\n", "## Current Goals", "\n", "- old goal", "\n",
     "## Notes", "\n", "keep this">>,
   <<"notes", "\n", "  ## Current Goals  ", "\n", "- old goal">>,
   <<"# My Focus", "\n", "- old goal">>,
   <<"   ", "\n">>}

\* The user saves the active-context document outside the extension.
ExternalEditActiveContext(doc) ==
  /\ Started
  /\ disk' = [disk EXCEPT ![ActiveContextFile] = doc]
  /\ dirExists' = TRUE
  /\ Completed([op |-> "ExternalEdit", path |-> ActiveContextFile])
  /\ UNCHANGED <<rootBrief, summaryCache, fileCache, pc, frame, initDone>>
  /\ UNCHANGED <<modeVars, watcherVars, templateVars, toolVars, queryVars, providerVars>>

DecisionLogFile == "memory-bank/decisionLog.md"

\* new Date().toISOString() at two instants, and its split('T')[0].
Instants ==
  {<<"2025-03-01", "T", "09:30:00.000Z">>,
   <<"2025-03-02", "T", "23:59:59.000Z">>}

isoDate(instant) == instant[1]

\* rationale || '-'
rationaleOrDash(rationale) == IF rationale = "" THEN "-" ELSE rationale

\* The row is written without its date.
decisionRow_undated(date, decision, rationale) ==
  <<"| ", " | ", decision, " | ", rationaleOrDash(rationale), " |\n">>

\* `| ${date} | ${decision} | ${rationale || '-'} |\n`
decisionRow(date, decision, rationale) ==
  <<"| ", date, " | ", decision, " | ", rationaleOrDash(rationale), " |\n">>

\* The calls of logDecision: the instant of the call, the decision and the
\* rationale, which is "" when the caller gives none.
LogDecisionCalls ==
  {[instant |-> <<"2025-03-01", "T", "09:30:00.000Z">>,
    decision |-> "Use X", rationale |-> "because Y"],
   [instant |-> <<"2025-03-02", "T", "23:59:59.000Z">>,
    decision |-> "Drop Z", rationale |-> ""]}

\* logDecision(decision, rationale) up to the second await of its
\* appendToFile: the row is built and readFile has returned.
logDecision_read(c, call) ==
  /\ pc[c] = "idle"
  /\ call.instant \in Instants
  /\ Started
  /\ LET r == ReadFile(disk, fileCache, DecisionLogFile, FALSE)
         row == decisionRow(isoDate(call.instant), call.decision,
                            call.rationale) IN
       /\ disk' = r.disk
       /\ fileCache' = r.cache
       /\ dirExists' = (dirExists \/ r.disk # disk)
       /\ frame' = [frame EXCEPT ![c] =
                      [path |-> DecisionLogFile, existing |-> r.ret,
                       arg |-> row, call |-> call]]
  /\ pc' = [pc EXCEPT ![c] = "logDecision"]
  /\ Completed([op |-> "logDecision_read", caller |-> c,
                path |-> DecisionLogFile])
  /\ UNCHANGED <<rootBrief, summaryCache, initDone>>
  /\ UNCHANGED <<modeVars, watcherVars, templateVars, toolVars, queryVars, providerVars>>

\* logDecision from the write of its appendToFile on: the file is written,
\* the cache is set and decisionLogged is emitted.
logDecision_write(c) ==
  /\ pc[c] = "logDecision"
  /\ LET f == frame[c]
         newContent == appendToFile_newContent(f.existing, f.arg) IN
       /\ disk' = [disk EXCEPT ![f.path] = newContent]
       /\ fileCache' = [fileCache EXCEPT ![f.path] = newContent]
       /\ Completed([op |-> "logDecision", caller |-> c, path |-> f.path,
                     existing |-> f.existing, call |-> f.call,
                     persisted |-> newContent,
                     emitted |-> [event |-> "decisionLogged",
                                  decision |-> f.call.decision,
                                  rationale |-> f.call.rationale]])
  /\ dirExists' = TRUE
  /\ pc' = [pc EXCEPT ![c] = "idle"]
  /\ frame' = [frame EXCEPT ![c] = NoFrame]
  /\ UNCHANGED <<rootBrief, summaryCache, ops, initDone>>
  /\ UNCHANGED <<modeVars, watcherVars, templateVars, toolVars, queryVars, providerVars>>

NextStore ==
  \/ \E path \in OpFiles : writeFile(path, WrittenText)
  \/ \E c \in Callers, path \in OpFiles :
       appendToFile_read(c, path, Entry(c))
  \/ \E c \in Callers : appendToFile_write(c)
  \/ \E c \in Callers, path \in OpFiles :
       appendLine_read(c, path, Entry(c))
  \/ \E c \in Callers : appendLine_write(c)
  \/ \E path \in OpFiles, ioError \in BOOLEAN :
       readFile(path, ioError)
  \/ \E path \in OpFiles : getFileContent(path)
  \/ \E answer \in {"Yes", "No"} : initialise(answer)
  \/ scanWorkspace
  \/ \E path \in OpFiles : ExternalEdit(path)
  \/ \E path \in OpFiles : ExternalDelete(path)
  \/ \E event \in FileChangeEvents, ioError \in BOOLEAN :
       handleFileChange(event, ioError)

\* The operations on the active-context document.
NextActiveContext ==
  \/ \E context \in Contexts : updateActiveContext(context)
  \/ \E doc \in ActiveContextDocs : ExternalEditActiveContext(doc)
  \/ ExternalDelete(ActiveContextFile)
  \/ \E answer \in {"Yes", "No"} : initialise(answer)

\* The operations on the decision log.
NextDecisionLog ==
  \/ \E c \in Callers, call \in LogDecisionCalls : logDecision_read(c, call)
  \/ \E c \in Callers : logDecision_write(c)
  \/ ExternalEdit(DecisionLogFile)
  \/ ExternalDelete(DecisionLogFile)

(***************************************************************************)
(* TEMPLATE SYNCHRONIZER                                                   *)
(***************************************************************************)

\* A version string is the sequence of its characters; a template is its
\* version marker (<<>> when the front matter has none) and its body.
Chars(str) ==
  CASE str = "1.0.0" -> <<"1", ".", "0", ".", "0">>
    [] str = "1.0" -> <<"1", ".", "0">>
    [] str = "0.9" -> <<"0", ".", "9">>
    [] str = "1.0.1" -> <<"1", ".", "0", ".", "1">>
    [] str = "2" -> <<"2">>
    [] str = "0.0.0" -> <<"0", ".", "0", ".", "0">>
    [] str = "1.10" -> <<"1", ".", "1", "0">>
    [] str = "1.2.0" -> <<"1", ".", "2", ".", "0">>
    [] str = "1.1.9" -> <<"1", ".", "1", ".", "9">>
    [] str = "0" -> <<"0">>
    [] str = "v2" -> <<"v", "2">>
    [] str = "beta" -> <<"b", "e", "t", "a">>
    [] str = "'1.0.0'" -> <<"'", "1", ".", "0", ".", "0", "'">>
    [] OTHER -> <<>>

NoMarker == <<>>

NoFile == [marker |-> NoMarker, body |-> "ENOENT"]

\* DEFAULT_MODE_TEMPLATES[mode]: every default carries version "1.0.0".
DEFAULT_MODE_TEMPLATES(mode) == [marker |-> Chars("1.0.0"), body |-> "bundled " \o mode]

\* getBundledTemplate(mode)
getBundledTemplate(mode) == DEFAULT_MODE_TEMPLATES(mode)

\* A template's marker is the text that follows "version:" and its white
\* space in the front matter.  ["']? skips one quote, ([\d\.]+) captures
\* the longest run of digits and dots that follows.
VersionChars == {"0", "1", "2", "3", "4", "5", "6", "7", "8", "9", "."}

Unquoted(raw) ==
  IF raw # <<>> /\ Head(raw) \in {"'", "\""} THEN Tail(raw) ELSE raw

RECURSIVE Captured(_)
Captured(raw) ==
  IF raw = <<>> \/ Head(raw) \notin VersionChars THEN <<>>
  ELSE <<Head(raw)>> \o Captured(Tail(raw))

\* extractTemplateVersion(template): the marker the regular expression
\* captures, or "0.0.0" when it does not match.
extractTemplateVersion(template) ==
  IF Captured(Unquoted(template.marker)) = <<>> THEN Chars("0.0.0")
  ELSE Captured(Unquoted(template.marker))

\* String.prototype.split('.') on a sequence of characters.
RECURSIVE split(_, _)
split(chars, acc) ==
  IF chars = <<>> THEN <<acc>>
  ELSE IF Head(chars) = "." THEN <<acc>> \o split(Tail(chars), <<>>)
  ELSE split(Tail(chars), Append(acc, Head(chars)))

Digit(ch) ==
  CASE ch = "0" -> 0 [] ch = "1" -> 1 [] ch = "2" -> 2 [] ch = "3" -> 3
    [] ch = "4" -> 4 [] ch = "5" -> 5 [] ch = "6" -> 6 [] ch = "7" -> 7
    [] ch = "8" -> 8 [] ch = "9" -> 9

\* Number(part) for a string of digits; Number("") is 0.
RECURSIVE Number(_)
Number(part) ==
  IF part = <<>> THEN 0
  ELSE Number(SubSeq(part, 1, Len(part) - 1)) * 10 + Digit(part[Len(part)])

\* version.split('.').map(Number)
Parts(version) ==
  LET strs == split(version, <<>>) IN [i \in 1..Len(strs) |-> Number(strs[i])]

\* A version with fewer parts is not padded with zeros.
PartOrZero_unpadded(parts, i) == IF i <= Len(parts) THEN parts[i] ELSE -1

\* parts[i] || 0, for the 1-based index i
PartOrZero(parts, i) == IF i <= Len(parts) THEN parts[i] ELSE 0

\* The loop of isVersionNewer from index i on.
RECURSIVE isVersionNewerFrom(_, _, _)
isVersionNewerFrom(newParts, oldParts, i) ==
  IF i > Max(Len(newParts), Len(oldParts)) THEN FALSE
  ELSE IF PartOrZero(newParts, i) > PartOrZero(oldParts, i) THEN TRUE
  ELSE IF PartOrZero(newParts, i) < PartOrZero(oldParts, i) THEN FALSE
  ELSE isVersionNewerFrom(newParts, oldParts, i + 1)

\* The comparison answering true for equal versions as well.
isVersionNewer_orEqual(newVersion, oldVersion) ==
  ~isVersionNewerFrom(Parts(oldVersion), Parts(newVersion), 1)

isVersionNewer(newVersion, oldVersion) ==
  isVersionNewerFrom(Parts(newVersion), Parts(oldVersion), 1)

\* The modes ensureAllModeTemplates walks through, in its order, and the
\* ones switchToMode and the user's edits of SpecTemplates work on.
TemplateModeOrder == <<"ask", "architect", "code", "debug">>

TemplateModes == Range(TemplateModeOrder)

SyncModes ==
  {TemplateModeOrder[i] : i \in 1..Min(MaxModes, Len(TemplateModeOrder))}

\* The version markers of the templates the user saves.
UserMarkers == {NoMarker, Chars("0.9"), Chars("1.0"), Chars("1.0.1")}

\* Which file operation of an ensureModeTemplate call fails, if any.
IoFailures == {"none", "read", "copy", "write"}

NoEnsure == [ran |-> FALSE]

NoCompare == [ran |-> FALSE]

NoCheck == [ran |-> FALSE]

NoRefresh == [ran |-> FALSE]

InitTemplates ==
  /\ wsTemplate = [m \in TemplateModes |-> NoFile]
  /\ backupFile = [m \in TemplateModes |-> NoFile]
  /\ userLast = [m \in TemplateModes |-> NoFile]
  /\ lastEnsure = NoEnsure
  /\ refresh = NoRefresh
  /\ lastRefresh = NoRefresh
  /\ tplOps = 0
  /\ userEdits = 0
  /\ refreshes = 0
  /\ faults = 0
  /\ lastCheck = NoCheck
  /\ lastCompare = NoCompare

\* A template whose read fails is left alone.
ShouldUpdate_skipOnError(mode, wsCopy, forceUpdate, fail) ==
  IF wsCopy # NoFile
  THEN IF forceUpdate THEN TRUE
       ELSE IF fail = "read" THEN FALSE
       ELSE isVersionNewer(extractTemplateVersion(getBundledTemplate(mode)),
                           extractTemplateVersion(wsCopy))
  ELSE TRUE

\* A missing template is created only by a forced update.
ShouldUpdate_missingOnlyForced(mode, wsCopy, forceUpdate, fail) ==
  IF wsCopy # NoFile
  THEN IF forceUpdate THEN TRUE
       ELSE IF fail = "read" THEN TRUE
       ELSE isVersionNewer(extractTemplateVersion(getBundledTemplate(mode)),
                           extractTemplateVersion(wsCopy))
  ELSE forceUpdate

\* A template is rewritten unless the workspace copy is the newer one.
ShouldUpdate_unlessNewer(mode, wsCopy, forceUpdate, fail) ==
  IF wsCopy # NoFile
  THEN IF forceUpdate THEN TRUE
       ELSE IF fail = "read" THEN TRUE
       ELSE ~isVersionNewer(extractTemplateVersion(wsCopy),
                            extractTemplateVersion(getBundledTemplate(mode)))
  ELSE TRUE

\* Whether ensureModeTemplate decides to write the template.
ShouldUpdate(mode, wsCopy, forceUpdate, fail) ==
  IF wsCopy # NoFile
  THEN IF forceUpdate THEN TRUE
       ELSE IF fail = "read" THEN TRUE
       ELSE isVersionNewer(extractTemplateVersion(getBundledTemplate(mode)),
                           extractTemplateVersion(wsCopy))
  ELSE TRUE

\* No copy is taken before the template is overwritten.
BackupOf_none(wsCopy, backupCopy) == backupCopy

\* The .backup file ensureModeTemplate leaves when it updates a template
\* whose workspace copy is wsCopy.
BackupOf(wsCopy, backupCopy) == IF wsCopy # NoFile THEN wsCopy ELSE backupCopy

\* ensureModeTemplate(mode, forceUpdate) on the files wsCopy and
\* backupCopy: the files it leaves and the result it returns.
EnsureModeTemplate(mode, wsCopy, backupCopy, forceUpdate, fail) ==
  LET unchanged == [ws |-> wsCopy, backup |-> backupCopy,
                    updated |-> FALSE, backupCreated |-> FALSE] IN
  IF ~ShouldUpdate(mode, wsCopy, forceUpdate, fail) THEN unchanged
  ELSE IF wsCopy # NoFile /\ fail = "copy" THEN unchanged
  ELSE IF fail = "write"
       THEN [ws |-> wsCopy, backup |-> BackupOf(wsCopy, backupCopy),
             updated |-> FALSE, backupCreated |-> (wsCopy # NoFile)]
       ELSE [ws |-> getBundledTemplate(mode),
             backup |-> BackupOf(wsCopy, backupCopy),
             updated |-> TRUE, backupCreated |-> (wsCopy # NoFile)]

EnsureRecord(mode, wsCopy, backupCopy, forceUpdate, fail, r) ==
  [ran |-> TRUE, mode |-> mode, force |-> forceUpdate, fail |-> fail,
   before |-> wsCopy, backupBefore |-> backupCopy,
   updated |-> r.updated, backupCreated |-> r.backupCreated]

TplStarted == tplOps < MaxTplOps /\ tplOps' = tplOps + 1

\* One run of ensureModeTemplate(mode, forceUpdate) on the files of the
\* workspace; fail says which of its file operations fails.
RunEnsure(mode, forceUpdate, fail) ==
  LET r == EnsureModeTemplate(mode, wsTemplate[mode], backupFile[mode],
                              forceUpdate, fail) IN
  /\ wsTemplate' = [wsTemplate EXCEPT ![mode] = r.ws]
  /\ backupFile' = [backupFile EXCEPT ![mode] = r.backup]
  /\ lastEnsure' = EnsureRecord(mode, wsTemplate[mode], backupFile[mode],
                              forceUpdate, fail, r)

\* ensureModeTemplate(mode, forceUpdate); switchToMode(mode) calls it with
\* forceUpdate = false.
ensureModeTemplate(mode, forceUpdate, fail) ==
  /\ TplStarted
  /\ RunEnsure(mode, forceUpdate, fail)
  /\ UNCHANGED <<userLast, refresh, lastRefresh, userEdits, refreshes,
                 faults, lastCheck, lastCompare>>
  /\ UNCHANGED <<modeVars, storeVars, watcherVars, toolVars, queryVars, providerVars>>

\* The modes the loop of ensureAllModeTemplates visits, in its order.
RefreshOrder == SelectSeq(TemplateModeOrder, LAMBDA m : m \in TemplateModes)

\* `${mode}.chatmode.md` and `${mode}.chatmode.md.backup`
TemplateFileName(mode) == mode \o ".chatmode.md"

BackupFileName(mode) == mode \o ".chatmode.md.backup"

\* ensureAllModeTemplates(forceUpdate), as refreshTemplates(forceUpdate)
\* runs it, up to its loop: the three lists are empty.  steps keeps, for
\* every mode visited, the files the call found, the .backup file it left
\* and whether the read of the workspace copy was made and failed.
ensureAllModeTemplates_start(forceUpdate) ==
  /\ refreshes < MaxRefreshes
  /\ refreshes' = refreshes + 1
  /\ ~refresh.ran
  /\ refresh' = [ran |-> TRUE, force |-> forceUpdate, next |-> 1,
                 updated |-> <<>>, skipped |-> <<>>, backups |-> <<>>,
                 steps |-> <<>>]
  /\ lastCheck' = NoCheck
  /\ UNCHANGED <<wsTemplate, backupFile, userLast, lastEnsure, lastRefresh,
                 tplOps, userEdits, faults, lastCompare>>
  /\ UNCHANGED <<modeVars, storeVars, watcherVars, toolVars, queryVars, providerVars>>

\* A mode that was not updated is left out of the skipped list.
pushResult_updatedOnly(results, mode, result) ==
  [results EXCEPT
     !.updated = IF result.updated THEN Append(@, TemplateFileName(mode))
                 ELSE @,
     !.backups = IF result.backupCreated
                 THEN Append(@, BackupFileName(mode)) ELSE @]

\* The body of the loop after the await: the result of one mode is sorted
\* into the lists.
pushResult(results, mode, result) ==
  [results EXCEPT
     !.updated = IF result.updated THEN Append(@, TemplateFileName(mode))
                 ELSE @,
     !.skipped = IF result.updated THEN @
                 ELSE Append(@, TemplateFileName(mode)),
     !.backups = IF result.backupCreated
                 THEN Append(@, BackupFileName(mode)) ELSE @]

\* One iteration of the loop: the awaited ensureModeTemplate of the next
\* mode, its result sorted into the lists; after the last mode the lists
\* are returned.
ensureAllModeTemplates_step(fail) ==
  /\ refresh.ran
  /\ IF fail = "none" THEN UNCHANGED faults
     ELSE faults < MaxFaults /\ faults' = faults + 1
  /\ LET mode == RefreshOrder[refresh.next]
         r == EnsureModeTemplate(mode, wsTemplate[mode], backupFile[mode],
                                 refresh.force, fail)
         step == [mode |-> mode,
                  readFailed |-> (/\ fail = "read"
                                  /\ wsTemplate[mode] # NoFile
                                  /\ ~refresh.force),
                  before |-> wsTemplate[mode],
                  backupBefore |-> backupFile[mode],
                  backupAfter |-> r.backup]
         results ==
           [pushResult(refresh, mode, r) EXCEPT
              !.next = @ + 1, !.steps = Append(@, step)]
     IN
       /\ RunEnsure(mode, refresh.force, fail)
       /\ IF refresh.next = Len(RefreshOrder)
          THEN /\ lastRefresh' = [ran |-> TRUE, force |-> results.force,
                                  updated |-> results.updated,
                                  skipped |-> results.skipped,
                                  backups |-> results.backups,
                                  steps |-> results.steps]
               /\ refresh' = NoRefresh
          ELSE /\ refresh' = results
               /\ UNCHANGED lastRefresh
  /\ lastCheck' = NoCheck
  /\ UNCHANGED <<userLast, tplOps, userEdits, refreshes, lastCompare>>
  /\ UNCHANGED <<modeVars, storeVars, watcherVars, toolVars, queryVars, providerVars>>

\* The loop of checkForTemplateUpdates from the mode of index i on;
\* failMode is the mode whose template cannot be read or parsed.
RECURSIVE checkFrom(_, _, _)
checkFrom(ws, failMode, i) ==
  IF i > Len(TemplateModeOrder) THEN FALSE
  ELSE LET mode == TemplateModeOrder[i] IN
       IF ws[mode] = NoFile THEN TRUE
       ELSE IF failMode = mode THEN TRUE
       ELSE IF isVersionNewer(
                 extractTemplateVersion(getBundledTemplate(mode)),
                 extractTemplateVersion(ws[mode])) THEN TRUE
       ELSE checkFrom(ws, failMode, i + 1)

\* A failed read is passed over as if the template were up to date.
CheckForTemplateUpdates_errorsIgnored(ws, failMode) ==
  checkFrom(ws, "none", 1)

CheckForTemplateUpdates(ws, failMode) == checkFrom(ws, failMode, 1)

\* checkForTemplateUpdates() of an initialized provider in a workspace.
checkForTemplateUpdates(failMode) ==
  /\ lastCheck' = [ran |-> TRUE, ws |-> wsTemplate, failMode |-> failMode,
                   ret |-> CheckForTemplateUpdates(wsTemplate, failMode)]
  /\ UNCHANGED <<wsTemplate, backupFile, userLast, lastEnsure, refresh,
                 lastRefresh, tplOps, userEdits, refreshes, faults,
                 lastCompare>>
  /\ UNCHANGED <<modeVars, storeVars, watcherVars, toolVars, queryVars, providerVars>>

\* The user saves an edited template in the workspace.
UserEditTemplate(mode, marker) ==
  /\ TplStarted
  /\ userEdits < MaxUserEdits
  /\ userEdits' = userEdits + 1
  /\ LET edited == [marker |-> marker, body |-> "user " \o mode] IN
       /\ wsTemplate' = [wsTemplate EXCEPT ![mode] = edited]
       /\ userLast' = [userLast EXCEPT ![mode] = edited]
  /\ lastEnsure' = NoEnsure
  /\ lastCheck' = NoCheck
  /\ UNCHANGED <<backupFile, refresh, lastRefresh, refreshes, faults,
                 lastCompare>>
  /\ UNCHANGED <<modeVars, storeVars, watcherVars, toolVars, queryVars, providerVars>>

\* The version markers of the templates whose versions are compared.
VersionMarkers ==
  {NoMarker, Chars("beta"), Chars("v2"), Chars("0.0.0"), Chars("0"),
   Chars("0.9"), Chars("1.0"), Chars("1.0.0"), Chars("'1.0.0'"),
   Chars("1.0.1"), Chars("1.1.9"), Chars("1.2.0"), Chars("1.10"),
   Chars("2")}

\* The comparison ensureModeTemplate and checkForTemplateUpdates make of
\* two templates: both versions are extracted, then compared.
compareVersions(newMarker, oldMarker) ==
  /\ LET newVersion == extractTemplateVersion(
                         [marker |-> newMarker, body |-> "new"])
         oldVersion == extractTemplateVersion(
                         [marker |-> oldMarker, body |-> "old"]) IN
       lastCompare' = [ran |-> TRUE,
                       newMarker |-> newMarker, oldMarker |-> oldMarker,
                       newVersion |-> newVersion, oldVersion |-> oldVersion,
                       ret |-> isVersionNewer(newVersion, oldVersion)]
  /\ UNCHANGED <<wsTemplate, backupFile, userLast, lastEnsure, refresh,
                 lastRefresh, tplOps, userEdits, refreshes, faults,
                 lastCheck>>
  /\ UNCHANGED <<modeVars, storeVars, watcherVars, toolVars, queryVars, providerVars>>

NextVersions ==
  \E newMarker \in VersionMarkers, oldMarker \in VersionMarkers :
    compareVersions(newMarker, oldMarker)

NextTemplates ==
  \/ \E mode \in SyncModes, forceUpdate \in BOOLEAN, fail \in IoFailures :
       ensureModeTemplate(mode, forceUpdate, fail)
  \/ \E mode \in SyncModes, marker \in UserMarkers :
       UserEditTemplate(mode, marker)

\* The version markers of the templates the user saves between and during
\* refreshTemplates calls: one behind the bundled version, one ahead.
RefreshMarkers == {Chars("0.9"), Chars("1.0.1")}

\* refreshTemplates, over all the modes, and the user's edits.
NextRefresh ==
  \/ \E forceUpdate \in BOOLEAN : ensureAllModeTemplates_start(forceUpdate)
  \/ \E fail \in IoFailures : ensureAllModeTemplates_step(fail)
  \/ \E mode \in SyncModes, marker \in RefreshMarkers :
       UserEditTemplate(mode, marker)

\* checkForTemplateUpdates on the templates that the user's edits and
\* refreshTemplates calls without file errors leave.
NextCheck ==
  \/ \E failMode \in TemplateModes \cup {"none"} :
       checkForTemplateUpdates(failMode)
  \/ \E forceUpdate \in BOOLEAN : ensureAllModeTemplates_start(forceUpdate)
  \/ ensureAllModeTemplates_step("none")
  \/ \E mode \in SyncModes, marker \in UserMarkers :
       UserEditTemplate(mode, marker)

(***************************************************************************)
(* ASSISTANT TOOLS                                                         *)
(***************************************************************************)

\* MODES[m].description
description(m) ==
  CASE m = "architect" ->
         "Design system architecture and make technical decisions"
    [] m = "code" -> "Implement features and write code"
    [] m = "ask" -> "Answer questions about the project"
    [] m = "debug" -> "Help identify and fix issues"

\* The architect mode reads the architect document as well.
readFiles_architectDoc(m) ==
  CASE m = "architect" ->
         <<"memory-bank/productContext.md", "memory-bank/decisionLog.md",
           "memory-bank/systemPatterns.md", "memory-bank/architect.md">>
    [] m = "code" ->
         <<"memory-bank/activeContext.md", "memory-bank/progress.md",
           "memory-bank/systemPatterns.md">>
    [] m = "ask" ->
         <<"memory-bank/productContext.md", "memory-bank/systemPatterns.md",
           "memory-bank/progress.md", "memory-bank/decisionLog.md",
           "memory-bank/projectBrief.md">>
    [] m = "debug" ->
         <<"memory-bank/activeContext.md", "memory-bank/decisionLog.md",
           "memory-bank/systemPatterns.md">>

\* MODES[m].readFiles
readFiles(m) ==
  CASE m = "architect" ->
         <<"memory-bank/productContext.md", "memory-bank/decisionLog.md",
           "memory-bank/systemPatterns.md">>
    [] m = "code" ->
         <<"memory-bank/activeContext.md", "memory-bank/progress.md",
           "memory-bank/systemPatterns.md">>
    [] m = "ask" ->
         <<"memory-bank/productContext.md", "memory-bank/systemPatterns.md",
           "memory-bank/progress.md", "memory-bank/decisionLog.md",
           "memory-bank/projectBrief.md">>
    [] m = "debug" ->
         <<"memory-bank/activeContext.md", "memory-bank/decisionLog.md",
           "memory-bank/systemPatterns.md">>

\* MODES[m].writeFiles; a value that is no mode has no such list.
writeFiles(m) ==
  CASE m = "architect" ->
         {"memory-bank/decisionLog.md", "memory-bank/systemPatterns.md"}
    [] m = "code" -> {"memory-bank/progress.md"}
    [] m = "ask" -> {}
    [] m = "debug" -> {"memory-bank/progress.md"}
    [] OTHER -> {}

MODE_PREFIX == "memoripilot."

\* getFullModeId(mode), as the prefix and the characters of the id.
getFullModeId(mode) == <<MODE_PREFIX>> \o mode

\* The ids the switch-mode tool is invoked with, and their characters.
ToolModeArgs == Range(MODE_IDS) \cup {"invalid-mode", "unknown", "constructor"}

IdChars(id) ==
  CASE id = "architect" -> <<"a", "r", "c", "h", "i", "t", "e", "c", "t">>
    [] id = "code" -> <<"c", "o", "d", "e">>
    [] id = "ask" -> <<"a", "s", "k">>
    [] id = "debug" -> <<"d", "e", "b", "u", "g">>
    [] id = "invalid-mode" ->
         <<"i", "n", "v", "a", "l", "i", "d", "-", "m", "o", "d", "e">>
    [] id = "unknown" -> <<"u", "n", "k", "n", "o", "w", "n">>
    [] id = "constructor" ->
         <<"c", "o", "n", "s", "t", "r", "u", "c", "t", "o", "r">>

\* String.prototype.toUpperCase() on a sequence of characters.
toUpperCase(input) ==
  [i \in 1..Len(input) |->
     IF \E k \in 1..Len(LowerCase) : LowerCase[k] = input[i]
     THEN UpperCase[CHOOSE k \in 1..Len(LowerCase) : LowerCase[k] = input[i]]
     ELSE input[i]]

\* mode.charAt(0).toUpperCase() + mode.slice(1)
modeDisplayName(mode) ==
  toUpperCase(SubSeq(mode, 1, Min(1, Len(mode)))) \o SubSeq(mode, 2, Len(mode))

\* f.split('/').pop() of a document path.
baseName(path) ==
  CASE path = "memory-bank/productContext.md" -> "productContext.md"
    [] path = "memory-bank/decisionLog.md" -> "decisionLog.md"
    [] path = "memory-bank/systemPatterns.md" -> "systemPatterns.md"
    [] path = "memory-bank/activeContext.md" -> "activeContext.md"
    [] path = "memory-bank/progress.md" -> "progress.md"
    [] path = "memory-bank/projectBrief.md" -> "projectBrief.md"

\* names.join(', ')
RECURSIVE joinNames(_)
joinNames(names) ==
  IF names = <<>> THEN <<>>
  ELSE IF Len(names) = 1 THEN <<names[1]>>
  ELSE <<names[1], ", ">> \o joinNames(Tail(names))

\* The texts of the results.  A text is the sequence of its pieces; the
\* marks (named by their code points) and the characters of the display
\* name are pieces of their own.
SuccessMark == "U+2705"
FailureMark == "U+274C"
WarningMark == "U+26A0"
InvalidWord == <<"I", "n", "v", "a", "l", "i", "d">>

\* The tool reports success whatever setMode returned.
SwitchedText(mode, current) ==
  <<SuccessMark, " Switched to **">> \o modeDisplayName(IdChars(mode))
  \o <<"** mode", "\n\n", "**Description**: ", description(current), "\n\n",
       "**Available files**: ">>
  \o joinNames([i \in 1..Len(readFiles(current)) |-> baseName(readFiles(current)[i])])

SwitchedChatText(mode) ==
  <<SuccessMark, " Switched to MemoriPilot ">>
  \o modeDisplayName(IdChars(mode))
  \o <<" mode. The chat interface and extension are now in sync.">>

FailedText(what, error) == <<FailureMark, what, error>>

NotRegisteredText(mode) ==
  <<FailureMark, " Error: Mode '">> \o getFullModeId(IdChars(mode))
  \o <<"' is not registered. Please reload the window or check your configuration.">>

ChatUnavailableText ==
  <<WarningMark,
    " VS Code chat mode switching is not available in this environment. Internal mode switched only.">>

CreateDirectoryError == "Error: Failed to create memory-bank directory: EACCES"
ReadFilesTypeError ==
  "TypeError: Cannot read properties of undefined (reading 'map')"
SectionMissingError ==
  "Error: Failed to update active context: Error: Template missing '## Current Goals' section"
CommandError == "command 'chat.setMode' failed"

NoTool ==
  [ran |-> FALSE, tool |-> "none", input |-> "none", outcome |-> "none",
   text |-> <<>>, before |-> "none", setModeCalled |-> FALSE, writes |-> {}]

InitTools ==
  /\ lastTool = NoTool
  /\ toolCalls = 0

ToolStarted == toolCalls < MaxToolCalls /\ toolCalls' = toolCalls + 1

\* The answer to the dialog and the fate of createDirectory: both are
\* consulted only while the memory-bank directory is missing.
InitialiseInputs ==
  IF dirExists THEN {[answer |-> "Yes", createFails |-> FALSE]}
  ELSE {[answer |-> "Yes", createFails |-> FALSE],
        [answer |-> "Yes", createFails |-> TRUE],
        [answer |-> "No", createFails |-> FALSE]}

\* BaseMemoryBankTool.ensureInitialized(): how MemoryManager.initialise()
\* ends.  Without the directory the user is asked; createDirectory may fail.
EnsureInitialized(answer, createFails) ==
  IF dirExists THEN "done"
  ELSE IF answer # "Yes" THEN "cancelled"
  ELSE IF createFails THEN "threw"
  ELSE "done"

\* The documents after ensureInitialized().
InitialisedDisk(init) ==
  IF init = "done" THEN CopyRootBrief(CreateMissing(disk), rootBrief) ELSE disk

\* String.prototype.substring(0, end).length on a string of len characters:
\* a negative end counts as 0, an end past the string as its length.
substringLength(len, end) == Min(len, Max(end, 0))

\* The length of LlmSummary.summarise(content, maxTokens): of the first
\* paragraph, or of its cut and the three dots.
summaryLength(content, maxTokens) ==
  LET len == byteLength(firstPara(content, <<>>))
      tokenLimit == maxTokens * 4 IN
  IF len <= tokenLimit THEN len
  ELSE substringLength(len, tokenLimit - 3) + 3

\* Math.floor(totalBudget / Object.keys(ALL_FILE_TEMPLATES).length)
perFile(totalBudget) == totalBudget \div Len(ALL_FILE_TEMPLATES)

\* The loop of MemoryManager.getSummaries(totalBudget) from the document of
\* index i on: every document is read and summarised in turn.
RECURSIVE getSummariesFrom(_, _, _, _, _)
getSummariesFrom(d, cache, totalBudget, i, out) ==
  IF i > Len(ALL_FILE_TEMPLATES)
  THEN [disk |-> d, cache |-> cache, out |-> out]
  ELSE LET path == ALL_FILE_TEMPLATES[i]
           r == ReadFile(d, cache, path, FALSE) IN
         getSummariesFrom(
           r.disk, r.cache, totalBudget, i + 1,
           Append(out, [path |-> path,
                        summary |-> summarise(r.ret, perFile(totalBudget)),
                        length |-> summaryLength(r.ret,
                                                 perFile(totalBudget))]))

\* MemoryManager.getSummaries(totalBudget = 256)
getSummaries(d, cache, totalBudget) ==
  getSummariesFrom(d, cache, totalBudget, 1, <<>>)

\* CopilotIntegration.updateCopilotContext(): nothing while the integration
\* is inactive; its own errors are caught.
updateCopilotContext(active, d, cache) ==
  IF active
  THEN LET s == getSummaries(d, cache, 256) IN
         [disk |-> s.disk, cache |-> s.cache]
  ELSE [disk |-> d, cache |-> cache]

\* The store and the watcher after a tool call that left the documents d and
\* the cache given.
ToolStore(init, d, cache) ==
  /\ disk' = d
  /\ fileCache' = cache
  /\ dirExists' = (dirExists \/ init = "done" \/ d # disk)
  /\ initDone' = (initDone \/ init = "done")
  /\ IF init = "done"
     THEN /\ WatchFiles(ALL_FILE_TEMPLATES)
          /\ UNCHANGED <<timerSeq, now, rawCount, fileChanged, lastRaw>>
     ELSE UNCHANGED watcherVars
  /\ UNCHANGED <<rootBrief, summaryCache, pc, frame, ops>>

\* SwitchModeTool.invoke of src/tools: everything inside one try.
SwitchModeTool_invoke(mode, answer, createFails, active) ==
  /\ ToolStarted
  /\ LET init == EnsureInitialized(answer, createFails)
         found == MODES(mode)
         current == IF init = "threw" \/ found = Undefined
                    THEN currentMode ELSE found
         c == IF init = "threw" THEN [disk |-> disk, cache |-> fileCache]
              ELSE updateCopilotContext(active, InitialisedDisk(init),
                                        fileCache)
         text == IF init = "threw"
                 THEN FailedText(" Failed to switch mode: ",
                                 CreateDirectoryError)
                 ELSE IF current \notin Range(MODE_IDS)
                 THEN FailedText(" Failed to switch mode: ",
                                 ReadFilesTypeError)
                 ELSE SwitchedText(mode, current) IN
       /\ ToolStore(init, c.disk, c.cache)
       /\ currentMode' = current
       /\ lastSetMode' =
            IF init = "threw" THEN lastSetMode
            ELSE [arg |-> mode, ret |-> found # Undefined,
                  before |-> currentMode]
       /\ lastTool' = [ran |-> TRUE, tool |-> "SwitchModeTool",
                       input |-> mode, outcome |-> "returned",
                       text |-> text, before |-> currentMode,
                       setModeCalled |-> init # "threw", writes |-> {}]
  /\ Completed([op |-> "SwitchModeTool"])
  /\ UNCHANGED <<modeCalls, lastDetect>>
  /\ UNCHANGED <<templateVars, queryVars, providerVars>>

\* ChatModeProvider.getRegisteredModes(): the modes whose participant was
\* created, all four or none of them.
RegisteredModeSets ==
  {{getFullModeId(IdChars(m)) : m \in Range(MODE_IDS)}, {}}

\* vscode.commands: chat.setMode is missing, runs, or fails.
ChatCommands == {"absent", "ok", "fails"}

\* SwitchModeTool.invoke of the chat-mode variant: ensureInitialized() is
\* awaited before the try, and setMode is called only after the host's
\* chat.setMode command has run.
SwitchModeTool_invoke_chat(mode, answer, createFails, registeredModes, chatSetMode) ==
  /\ ToolStarted
  /\ LET init == EnsureInitialized(answer, createFails)
         found == MODES(mode)
         registered == getFullModeId(IdChars(mode)) \in registeredModes
         calls == init # "threw" /\ registered /\ chatSetMode = "ok"
         current == IF calls /\ found # Undefined THEN found
                    ELSE currentMode
         text == IF init = "threw" THEN <<>>
                 ELSE IF ~registered THEN NotRegisteredText(mode)
                 ELSE IF chatSetMode = "absent" THEN ChatUnavailableText
                 ELSE IF chatSetMode = "fails"
                 THEN FailedText(" Failed to switch VS Code chat mode: ",
                                 CommandError)
                 ELSE SwitchedChatText(mode) IN
       /\ ToolStore(init, InitialisedDisk(init), fileCache)
       /\ currentMode' = current
       /\ lastSetMode' =
            IF calls
            THEN [arg |-> mode, ret |-> found # Undefined,
                  before |-> currentMode]
            ELSE lastSetMode
       /\ lastTool' = [ran |-> TRUE, tool |-> "SwitchModeTool_chat",
                       input |-> mode,
                       outcome |-> IF init = "threw" THEN "threw"
                                   ELSE "returned",
                       text |-> text, before |-> currentMode,
                       setModeCalled |-> calls, writes |-> {}]
  /\ Completed([op |-> "SwitchModeTool_chat"])
  /\ UNCHANGED <<modeCalls, lastDetect>>
  /\ UNCHANGED <<templateVars, queryVars, providerVars>>

\* `<success mark> Decision logged: ${decision}${rationale ? ` (${rationale})` : ""}`
DecisionLoggedText(call) ==
  <<SuccessMark, " Decision logged: ", call.decision>>
  \o (IF call.rationale = "" THEN <<>> ELSE <<" (", call.rationale, ")">>)

\* LogDecisionTool.invoke: the row is appended to the decision log whatever
\* mode is active.
LogDecisionTool_invoke(call, answer, createFails, active) ==
  /\ ToolStarted
  /\ LET init == EnsureInitialized(answer, createFails)
         r == ReadFile(InitialisedDisk(init), fileCache, DecisionLogFile,
                       FALSE)
         row == decisionRow(isoDate(call.instant), call.decision,
                            call.rationale)
         newContent == appendToFile_newContent(r.ret, row)
         c == updateCopilotContext(
                active, [r.disk EXCEPT ![DecisionLogFile] = newContent],
                [r.cache EXCEPT ![DecisionLogFile] = newContent]) IN
       IF init = "threw"
       THEN /\ ToolStore(init, disk, fileCache)
            /\ lastTool' = [ran |-> TRUE, tool |-> "LogDecisionTool",
                            input |-> call, outcome |-> "returned",
                            text |-> FailedText(" Failed to log decision: ",
                                                CreateDirectoryError),
                            before |-> currentMode, setModeCalled |-> FALSE,
                            writes |-> {}]
       ELSE /\ ToolStore(init, c.disk, c.cache)
            /\ lastTool' = [ran |-> TRUE, tool |-> "LogDecisionTool",
                            input |-> call, outcome |-> "returned",
                            text |-> DecisionLoggedText(call),
                            before |-> currentMode, setModeCalled |-> FALSE,
                            writes |-> {DecisionLogFile}]
  /\ Completed([op |-> "LogDecisionTool"])
  /\ UNCHANGED <<modeVars, templateVars, queryVars, providerVars>>

\* UpdateContextTool.invoke: the goals of the active-context document are
\* replaced whatever mode is active.
UpdateContextTool_invoke(context, answer, createFails, active) ==
  /\ ToolStarted
  /\ LET init == EnsureInitialized(answer, createFails)
         r == ReadFile(InitialisedDisk(init), fileCache, ActiveContextFile,
                       FALSE)
         u == UpdateActiveContext(r.ret, context)
         c == updateCopilotContext(
                active, [r.disk EXCEPT ![ActiveContextFile] = u.updated],
                [r.cache EXCEPT ![ActiveContextFile] = u.updated]) IN
       IF init = "threw"
       THEN /\ ToolStore(init, disk, fileCache)
            /\ lastTool' = [ran |-> TRUE, tool |-> "UpdateContextTool",
                            input |-> context, outcome |-> "returned",
                            text |-> FailedText(
                                       " Failed to update active context: ",
                                       CreateDirectoryError),
                            before |-> currentMode, setModeCalled |-> FALSE,
                            writes |-> {}]
       ELSE IF u.threw
       THEN /\ ToolStore(init, r.disk, r.cache)
            /\ lastTool' = [ran |-> TRUE, tool |-> "UpdateContextTool",
                            input |-> context, outcome |-> "returned",
                            text |-> FailedText(
                                       " Failed to update active context: ",
                                       SectionMissingError),
                            before |-> currentMode, setModeCalled |-> FALSE,
                            writes |-> {}]
       ELSE /\ ToolStore(init, c.disk, c.cache)
            /\ lastTool' = [ran |-> TRUE, tool |-> "UpdateContextTool",
                            input |-> context, outcome |-> "returned",
                            text |-> <<SuccessMark,
                                       " Active context updated to: ">>
                                     \o context,
                            before |-> currentMode, setModeCalled |-> FALSE,
                            writes |-> {ActiveContextFile}]
  /\ Completed([op |-> "UpdateContextTool"])
  /\ UNCHANGED <<modeVars, templateVars, queryVars, providerVars>>

\* The tools the assistant invokes, and the user's edits between the calls.
NextTools ==
  \/ \E mode \in ToolModeArgs, i \in InitialiseInputs, active \in BOOLEAN :
       SwitchModeTool_invoke(mode, i.answer, i.createFails, active)
  \/ \E mode \in ToolModeArgs, i \in InitialiseInputs,
        registeredModes \in RegisteredModeSets, chatSetMode \in ChatCommands :
       SwitchModeTool_invoke_chat(mode, i.answer, i.createFails,
                                  registeredModes, chatSetMode)
  \/ \E call \in LogDecisionCalls, i \in InitialiseInputs,
        active \in BOOLEAN :
       LogDecisionTool_invoke(call, i.answer, i.createFails, active)
  \/ \E context \in Contexts, i \in InitialiseInputs, active \in BOOLEAN :
       UpdateContextTool_invoke(context, i.answer, i.createFails, active)

(***************************************************************************)
(* QUERIES OF THE DOCUMENT STORE                                           *)
(***************************************************************************)

\* The paths the store is asked for that are no keys of ALL_FILE_TEMPLATES.
UnlistedPaths == {"memory-bank/nonexistent.md", "invalid-path.md"}

UnlistedText == <<"text of a file the store does not list">>

\* (ALL_FILE_TEMPLATES as any)[path]
TemplateOrUndefined(path) ==
  IF path \in MemoryFile THEN Template(path) ELSE Undefined

\* The budgets getSummaries is called with; 256 is its default.
Budgets == {0, 6, 7, 28, 35, 256}

NoGet == [ran |-> FALSE]

NoSummaries == [ran |-> FALSE]

InitQueries ==
  /\ otherDisk = [p \in UnlistedPaths |-> Missing]
  /\ otherCache = [p \in UnlistedPaths |-> NoEntry]
  /\ lastGet = NoGet
  /\ lastSummaries = NoSummaries
  /\ queries = 0

QueryStarted == queries < MaxQueries /\ queries' = queries + 1

\* getFileContent(path) for a path that is no enumerated document: a cached
\* text that is not empty is returned; otherwise readFile reads the file,
\* and answers a failed read with "" because the path has no template; the
\* text is cached and returned.
getFileContent_unlisted(path) ==
  /\ QueryStarted
  /\ LET cached == otherCache[path]
         hit == cached # NoEntry /\ cached # <<>>
         content == IF otherDisk[path] # Missing THEN otherDisk[path]
                    ELSE IF TemplateOrUndefined(path) # Undefined
                    THEN TemplateOrUndefined(path)
                    ELSE <<>> IN
       /\ otherCache' = IF hit THEN otherCache
                        ELSE [otherCache EXCEPT ![path] = content]
       /\ lastGet' = [ran |-> TRUE, path |-> path, outcome |-> "returned",
                      ret |-> IF hit THEN cached ELSE content,
                      onDisk |-> otherDisk[path] # Missing]
  /\ UNCHANGED <<otherDisk, lastSummaries>>
  /\ UNCHANGED <<modeVars, storeVars, watcherVars, templateVars, toolVars,
                 providerVars>>

\* The user creates or removes a file the store does not list.
ExternalCreateUnlisted(path) ==
  /\ QueryStarted
  /\ otherDisk[path] = Missing
  /\ otherDisk' = [otherDisk EXCEPT ![path] = UnlistedText]
  /\ UNCHANGED <<otherCache, lastGet, lastSummaries>>
  /\ UNCHANGED <<modeVars, storeVars, watcherVars, templateVars, toolVars,
                 providerVars>>

ExternalRemoveUnlisted(path) ==
  /\ QueryStarted
  /\ otherDisk[path] # Missing
  /\ otherDisk' = [otherDisk EXCEPT ![path] = Missing]
  /\ UNCHANGED <<otherCache, lastGet, lastSummaries>>
  /\ UNCHANGED <<modeVars, storeVars, watcherVars, templateVars, toolVars,
                 providerVars>>

\* getSummaries(totalBudget): the pairs of path and summary, with the
\* length of each summary; the reads recreate documents that are missing.
getSummaries_call(totalBudget) ==
  /\ QueryStarted
  /\ LET s == getSummaries(disk, fileCache, totalBudget) IN
       /\ disk' = s.disk
       /\ fileCache' = s.cache
       /\ dirExists' = (dirExists \/ s.disk # disk)
       /\ lastSummaries' = [ran |-> TRUE, totalBudget |-> totalBudget,
                            out |-> s.out]
  /\ Completed([op |-> "getSummaries"])
  /\ UNCHANGED <<rootBrief, summaryCache, pc, frame, ops, initDone>>
  /\ UNCHANGED <<otherDisk, otherCache, lastGet>>
  /\ UNCHANGED <<modeVars, watcherVars, templateVars, toolVars, providerVars>>

\* The user saves a document of the store between the queries.
UserSavesDocument(doc) ==
  /\ QueryStarted
  /\ disk[ActiveContextFile] # doc
  /\ disk' = [disk EXCEPT ![ActiveContextFile] = doc]
  /\ dirExists' = TRUE
  /\ Completed([op |-> "ExternalEdit", path |-> ActiveContextFile])
  /\ UNCHANGED <<rootBrief, summaryCache, fileCache, pc, frame, ops, initDone>>
  /\ UNCHANGED <<otherDisk, otherCache, lastGet, lastSummaries>>
  /\ UNCHANGED <<modeVars, watcherVars, templateVars, toolVars, providerVars>>

NextQueries ==
  \/ \E path \in UnlistedPaths : getFileContent_unlisted(path)
  \/ \E path \in UnlistedPaths : ExternalCreateUnlisted(path)
  \/ \E path \in UnlistedPaths : ExternalRemoveUnlisted(path)
  \/ \E totalBudget \in Budgets : getSummaries_call(totalBudget)
  \/ \E doc \in ActiveContextDocs : UserSavesDocument(doc)

(***************************************************************************)
(* THE CHAT-MODE PROVIDER                                                  *)
(* ChatModeProvider of src/src/utils/WorkspaceUtil.ts: its participants,   *)
(* the watcher of the memory-bank documents and the synchronizations of    *)
(* all templates it runs.                                                  *)
(***************************************************************************)
\* The id of the entry setupWatchers stores among the participants.
WatcherId == "watcher"

\* `memoripilot.${mode}`
ParticipantId(mode) == MODE_PREFIX \o mode

\* The kinds of events of the watcher on '**/memory-bank/*.md'.
DocumentEventKinds == {"change", "create", "delete"}

\* Which file operation of the ensureModeTemplate call inside switchToMode
\* fails, if any.
SwitchFailures == {"none", "write"}

NoSync == [ran |-> FALSE]

NoDocumentEvent == [ran |-> FALSE]

InitProvider ==
  /\ initialized = FALSE
  /\ disposed = FALSE
  /\ participants = <<>>
  /\ fsWatcher = "none"
  /\ lastSync = NoSync
  /\ lastEvent = NoDocumentEvent
  /\ providerOps = 0

ProviderStarted == providerOps < MaxProviderOps /\ providerOps' = providerOps + 1

\* getActiveMode(): the part after the dot of the first participant's id;
\* the id 'watcher' has none.
getActiveMode(parts) ==
  IF parts = <<>> THEN "undefined"
  ELSE IF \E m \in TemplateModes : ParticipantId(m) = parts[1]
       THEN CHOOSE m \in TemplateModes : ParticipantId(m) = parts[1]
       ELSE "undefined"

\* The loop of ensureAllModeTemplates(forceUpdate) from the mode of index
\* i on; fail is the file operation that fails for the mode failMode.
RECURSIVE EnsureAllFrom(_, _, _, _, _, _, _)
EnsureAllFrom(ws, backup, forceUpdate, failMode, fail, i, results) ==
  IF i > Len(TemplateModeOrder)
  THEN [ws |-> ws, backup |-> backup, results |-> results]
  ELSE LET mode == TemplateModeOrder[i]
           modeFail == IF mode = failMode THEN fail ELSE "none"
           r == EnsureModeTemplate(mode, ws[mode], backup[mode], forceUpdate,
                                   modeFail)
       IN EnsureAllFrom([ws EXCEPT ![mode] = r.ws],
                        [backup EXCEPT ![mode] = r.backup],
                        forceUpdate, failMode, fail, i + 1,
                        pushResult(results, mode, r))

\* ensureAllModeTemplates(forceUpdate) on the files ws and backup.
EnsureAllModeTemplates(ws, backup, forceUpdate, failMode, fail) ==
  EnsureAllFrom(ws, backup, forceUpdate, failMode, fail, 1,
                [updated |-> <<>>, skipped |-> <<>>, backups |-> <<>>])

\* The mode whose files fail and whose template the user edits: the first
\* of the modes, which is the active one after initialize.
FirstMode == TemplateModeOrder[1]

\* The inputs of a synchronization: no mode fails, or the first mode fails
\* in one file operation.
SyncFailures ==
  {<<"none", "none">>} \cup ({FirstMode} \X (IoFailures \ {"none"}))

\* registerParticipants(): a participant for every mode whose template
\* loadTemplate finds in the workspace, in the order of the modes.
RegisteredParticipants(ws) ==
  LET found == SelectSeq(TemplateModeOrder, LAMBDA m : ws[m] # NoFile) IN
  [i \in 1..Len(found) |-> ParticipantId(found[i])]

\* switchToMode(mode) of an initialized provider: the template of the mode
\* is ensured, the participant is created from the template loadTemplate
\* finds, every entry of participants is disposed, the watcher's entry
\* included, and the new participant is the only entry left.
SwitchToMode(ws, backup, parts, watcher, mode, fail) ==
  LET r == EnsureModeTemplate(mode, ws[mode], backup[mode], FALSE, fail)
      info == r.ws # NoFile
  IN [ws |-> [ws EXCEPT ![mode] = r.ws],
      backup |-> [backup EXCEPT ![mode] = r.backup],
      participants |-> IF info THEN <<ParticipantId(mode)>> ELSE parts,
      fsWatcher |-> IF info /\ WatcherId \in Range(parts) THEN "disposed"
                    ELSE watcher,
      threw |-> ~info]

\* refreshParticipants() of an initialized provider that is not disposed.
RefreshParticipants(ws, backup, parts, watcher, fail) ==
  IF getActiveMode(parts) = "undefined"
  THEN [ws |-> ws, backup |-> backup, participants |-> parts,
        fsWatcher |-> watcher, threw |-> FALSE]
  ELSE SwitchToMode(ws, backup, parts, watcher, getActiveMode(parts), fail)

\* The latest synchronization was not forced, met no file error, returned,
\* and the templates and their .backup files are as it left them.
Settled ==
  /\ lastSync.ran
  /\ ~lastSync.force
  /\ ~lastSync.failed
  /\ lastSync.returned
  /\ wsTemplate = lastSync.wsAfter
  /\ backupFile = lastSync.backupAfter

SyncRecord(by, forceUpdate, failed, returned, results, ws, backup) ==
  [ran |-> TRUE, by |-> by, force |-> forceUpdate, failed |-> failed,
   returned |-> returned,
   updated |-> results.updated, skipped |-> results.skipped,
   backups |-> results.backups,
   wsAfter |-> ws, backupAfter |-> backup,
   afterSettled |-> Settled,
   previousBackups |-> IF lastSync.ran THEN lastSync.backups ELSE <<>>]

\* initialize(memoryManager, context) of a provider that is neither
\* disposed nor initialized: the templates of all modes are ensured, the
\* participants registered and the watcher set up.
initialize(failMode, fail) ==
  /\ ProviderStarted
  /\ ~disposed
  /\ ~initialized
  /\ \E s \in {EnsureAllModeTemplates(wsTemplate, backupFile, FALSE,
                                       failMode, fail)} :
       /\ wsTemplate' = s.ws
       /\ backupFile' = s.backup
       /\ participants' =
            participants \o RegisteredParticipants(s.ws) \o <<WatcherId>>
       /\ lastSync' = SyncRecord("initialize", FALSE, fail # "none", TRUE,
                                 s.results, s.ws, s.backup)
  /\ lastEnsure' = NoEnsure
  /\ fsWatcher' = "live"
  /\ initialized' = TRUE
  /\ lastCheck' = NoCheck
  /\ UNCHANGED <<disposed, lastEvent>>
  /\ UNCHANGED <<userLast, refresh, lastRefresh, tplOps, userEdits, refreshes,
                 faults, lastCompare>>
  /\ UNCHANGED <<modeVars, storeVars, watcherVars, toolVars, queryVars>>

\* refreshTemplates(forceUpdate) of an initialized provider: the templates
\* of all modes are ensured, then the participants are refreshed; the
\* lists are returned unless the refresh throws.
refreshTemplates(forceUpdate, failMode, fail, switchFail) ==
  /\ ProviderStarted
  /\ ~disposed
  /\ initialized
  /\ \E s \in {EnsureAllModeTemplates(wsTemplate, backupFile, forceUpdate,
                                       failMode, fail)} :
     \E p \in {RefreshParticipants(s.ws, s.backup, participants, fsWatcher,
                                    switchFail)} :
       /\ wsTemplate' = p.ws
       /\ backupFile' = p.backup
       /\ participants' = p.participants
       /\ fsWatcher' = p.fsWatcher
       /\ lastEnsure' = NoEnsure
       /\ lastSync' = SyncRecord("refreshTemplates", forceUpdate,
                                 fail # "none" \/ switchFail # "none",
                                 ~p.threw, s.results, p.ws, p.backup)
  /\ lastCheck' = NoCheck
  /\ UNCHANGED <<initialized, disposed, lastEvent>>
  /\ UNCHANGED <<userLast, refresh, lastRefresh, tplOps, userEdits, refreshes,
                 faults, lastCompare>>
  /\ UNCHANGED <<modeVars, storeVars, watcherVars, toolVars, queryVars>>

\* switchToMode(mode) of an initialized provider.
switchToMode(mode, fail) ==
  /\ ProviderStarted
  /\ ~disposed
  /\ initialized
  /\ \E p \in {SwitchToMode(wsTemplate, backupFile, participants, fsWatcher,
                             mode, fail)} :
       /\ wsTemplate' = p.ws
       /\ backupFile' = p.backup
       /\ participants' = p.participants
       /\ fsWatcher' = p.fsWatcher
       /\ lastEnsure' = NoEnsure
  /\ lastCheck' = NoCheck
  /\ UNCHANGED <<initialized, disposed, lastSync, lastEvent>>
  /\ UNCHANGED <<userLast, refresh, lastRefresh, tplOps, userEdits, refreshes,
                 faults, lastCompare>>
  /\ UNCHANGED <<modeVars, storeVars, watcherVars, toolVars, queryVars>>

\* A document of the memory bank is changed, created or deleted.  The
\* watcher, while it is live, calls refreshParticipants() for an event of
\* any of the three kinds; a watcher that was disposed, or never created,
\* calls nothing.
DocumentEvent(kind, fail) ==
  /\ ProviderStarted
  /\ LET called == fsWatcher = "live"
         runs == called /\ ~disposed /\ initialized
         result ==
           IF runs
           THEN RefreshParticipants(wsTemplate, backupFile, participants,
                                    fsWatcher, fail)
           ELSE [ws |-> wsTemplate, backup |-> backupFile,
                 participants |-> participants, fsWatcher |-> fsWatcher,
                 threw |-> FALSE]
     IN
     \E p \in {result} :
       /\ wsTemplate' = p.ws
       /\ backupFile' = p.backup
       /\ participants' = p.participants
       /\ fsWatcher' = p.fsWatcher
       /\ lastEnsure' = NoEnsure
       /\ lastEvent' = [ran |-> TRUE, initialized |-> initialized,
                        disposed |-> disposed, refreshed |-> called]
  /\ lastCheck' = NoCheck
  /\ UNCHANGED <<initialized, disposed, lastSync>>
  /\ UNCHANGED <<userLast, refresh, lastRefresh, tplOps, userEdits, refreshes,
                 faults, lastCompare>>
  /\ UNCHANGED <<modeVars, storeVars, watcherVars, toolVars, queryVars>>

\* dispose(): every entry of participants is disposed, the watcher's entry
\* included if it is still there.
dispose ==
  /\ ProviderStarted
  /\ ~disposed
  /\ fsWatcher' = IF WatcherId \in Range(participants) THEN "disposed"
                  ELSE fsWatcher
  /\ participants' = <<>>
  /\ initialized' = FALSE
  /\ disposed' = TRUE
  /\ UNCHANGED <<lastSync, lastEvent>>
  /\ UNCHANGED <<modeVars, storeVars, watcherVars, templateVars, toolVars,
                 queryVars>>

\* checkForTemplateUpdates() as one of the operations of an initialized
\* provider.
checkForTemplateUpdates_call(failMode) ==
  /\ ProviderStarted
  /\ ~disposed
  /\ initialized
  /\ lastCheck' = [ran |-> TRUE, ws |-> wsTemplate, failMode |-> failMode,
                   ret |-> CheckForTemplateUpdates(wsTemplate, failMode)]
  /\ UNCHANGED <<initialized, disposed, participants, fsWatcher, lastSync,
                 lastEvent>>
  /\ UNCHANGED <<wsTemplate, backupFile, userLast, lastEnsure, refresh,
                 lastRefresh, tplOps, userEdits, refreshes, faults,
                 lastCompare>>
  /\ UNCHANGED <<modeVars, storeVars, watcherVars, toolVars, queryVars>>

\* The provider, the events of the memory bank and the user's edits of
\* the templates.
NextProvider ==
  \/ \E f \in SyncFailures : initialize(f[1], f[2])
  \/ \E forceUpdate \in BOOLEAN, f \in SyncFailures,
        switchFail \in SwitchFailures :
       refreshTemplates(forceUpdate, f[1], f[2], switchFail)
  \/ \E mode \in TemplateModes, fail \in SwitchFailures :
       switchToMode(mode, fail)
  \/ \E kind \in DocumentEventKinds, fail \in SwitchFailures :
       DocumentEvent(kind, fail)
  \/ dispose
  \/ \E failMode \in {FirstMode, "none"} :
       checkForTemplateUpdates_call(failMode)
  \/ \E marker \in RefreshMarkers : UserEditTemplate(FirstMode, marker)

(***************************************************************************)
(* SPECIFICATIONS                                                          *)
(***************************************************************************)

vars == <<modeVars, storeVars, watcherVars, templateVars, toolVars, queryVars, providerVars>>

Init == InitModes /\ InitStore /\ InitWatcher /\ InitTemplates /\ InitTools /\ InitQueries
        /\ InitProvider

Next ==
  \/ NextModes
  \/ NextStore
  \/ NextActiveContext
  \/ NextDecisionLog
  \/ NextWatcher
  \/ NextTemplates
  \/ NextRefresh
  \/ NextCheck
  \/ NextVersions
  \/ NextTools
  \/ NextQueries
  \/ NextProvider

Spec == Init /\ [][Next]_vars

\* Each subsystem on its own, the others at rest.
SpecModes == Init /\ [][NextModes]_vars
SpecTools == Init /\ [][NextTools]_vars
SpecQueries == Init /\ [][NextQueries]_vars
SpecProvider == Init /\ [][NextProvider]_vars

SpecStore == Init /\ [][NextStore]_vars

SpecActiveContext == Init /\ [][NextActiveContext]_vars

SpecDecisionLog == Init /\ [][NextDecisionLog]_vars

SpecWatcher == Init /\ [][NextWatcher]_vars

\* The Change Watcher on an event loop that lets time pass and runs a
\* timeout that is due.
SpecWatcherLive ==
  Init /\ [][NextWatcher]_vars /\ WF_vars(Tick) /\ WF_vars(TimerFire)

SpecVersions == Init /\ [][NextVersions]_vars

SpecRefresh == Init /\ [][NextRefresh]_vars

SpecCheck == Init /\ [][NextCheck]_vars

SpecTemplates == Init /\ [][NextTemplates]_vars

(***************************************************************************)
(* PROPERTIES                                                              *)
(***************************************************************************)

StoreWrites == {"writeFile", "appendToFile", "appendLine"}

\* C1: right after write, append or appendLine has completed, the cache
\* entry of the path is the content just persisted, and a cached read
\* (getFileContent) of the path returns it.
C1_CacheFollowsWrite ==
  last.op \in StoreWrites =>
    /\ fileCache[last.path] = last.persisted
    /\ GetFileContent(disk, fileCache, last.path).ret = last.persisted

\* C2: when an appendToFile call writes after another caller's entry was
\* appended to the content both calls had read, its write overwrites that
\* entry: the document is the content read followed by the later entry
\* only, the earlier entry is missing from it.
C2_LostUpdate ==
  \A c \in Callers, o \in Callers :
    ( /\ c # o
      /\ last.op = "appendToFile"
      /\ last.caller = c
      /\ last.diskBefore = last.existing \o Entry(o) )
    => /\ disk[last.path] = last.existing \o Entry(c)
       /\ Len(disk[last.path]) < Len(last.diskBefore \o Entry(c))

\* Both callers appended to the same content and the entry of the first
\* writer is gone.
C2_Witness ==
  \E c \in Callers, o \in Callers :
    /\ c # o
    /\ last.op = "appendToFile"
    /\ last.caller = c
    /\ last.diskBefore = last.existing \o Entry(o)
    /\ disk[last.path] = last.existing \o Entry(c)

LiveTimers(f) == Cardinality({t \in timers : t.file = f})

\* C3: a burst of raw notifications on a path, each within the debounce
\* window of the previous one, has exactly one fileChanged event: as long
\* as dispose() has not cancelled it, the burst either has one live timer
\* and no event yet, or no live timer and one event, and that event fired
\* no earlier than BatchDelay after the last notification of the burst.
C3_DebounceCoalescing ==
  \A f \in MemoryFile :
    (burst[f].len > 0 /\ ~burst[f].disposed) =>
      /\ LiveTimers(f) + burst[f].events = 1
      /\ burst[f].events = 1 => burst[f].firedAt >= lastRaw[f] + BatchDelay

\* A burst of three notifications, the last one later than the first, was
\* answered by its one event.
C3_Witness ==
  \E f \in MemoryFile :
    /\ burst[f].len >= 3
    /\ burst[f].events = 1
    /\ lastRaw[f] > 0
    /\ ~burst[f].disposed

\* C4: when ensureModeTemplate has updated a workspace template that
\* existed, the .backup file holds exactly the content the template had
\* before the update.
C4_BackupBeforeOverwrite ==
  (lastEnsure.ran /\ lastEnsure.updated /\ lastEnsure.before # NoFile)
  => /\ backupFile[lastEnsure.mode] = lastEnsure.before
     /\ lastEnsure.backupCreated

\* A template the user had edited was updated.
C4_Witness ==
  /\ lastEnsure.ran
  /\ lastEnsure.updated
  /\ lastEnsure.before # NoFile
  /\ lastEnsure.before = userLast[lastEnsure.mode]
  /\ wsTemplate[lastEnsure.mode] = getBundledTemplate(lastEnsure.mode)

\* Dotted-integer ordering: a is greater than b when, both padded with
\* zeros to the same length, a has the greater number at the first
\* position where they differ.
VersionGreater(a, b) ==
  LET pa == Parts(a)
      pb == Parts(b)
      n == Max(Len(pa), Len(pb)) IN
  \E i \in 1..n :
    /\ PartOrZero(pa, i) > PartOrZero(pb, i)
    /\ \A j \in 1..(i - 1) : PartOrZero(pa, j) = PartOrZero(pb, j)

BundledGreater(m, template) ==
  VersionGreater(extractTemplateVersion(getBundledTemplate(m)),
                 extractTemplateVersion(template))

\* C5 (as claimed): with forceUpdate = false and a workspace copy present,
\* ensureModeTemplate overwrites the copy only if the bundled version is
\* strictly greater than the workspace version, and leaves a copy of equal
\* or newer version unmodified.
C5_Original ==
  (lastEnsure.ran /\ ~lastEnsure.force /\ lastEnsure.before # NoFile)
  => /\ lastEnsure.updated => BundledGreater(lastEnsure.mode, lastEnsure.before)
     /\ ~BundledGreater(lastEnsure.mode, lastEnsure.before)
          => wsTemplate[lastEnsure.mode] = lastEnsure.before

\* C5 (amended): the same, for a workspace copy that could be read; a copy
\* whose read fails is treated as outdated whatever its version.
C5_UpdateOnlyIfNewer ==
  ( /\ lastEnsure.ran
    /\ ~lastEnsure.force
    /\ lastEnsure.before # NoFile
    /\ lastEnsure.fail # "read" )
  => /\ lastEnsure.updated => BundledGreater(lastEnsure.mode, lastEnsure.before)
     /\ ~BundledGreater(lastEnsure.mode, lastEnsure.before)
          => wsTemplate[lastEnsure.mode] = lastEnsure.before

\* A non-forced call left a readable copy of equal version ("1.0" against
\* the bundled "1.0.0") alone.
C5_Witness ==
  /\ lastEnsure.ran
  /\ ~lastEnsure.force
  /\ lastEnsure.fail = "none"
  /\ lastEnsure.before # NoFile
  /\ lastEnsure.before.marker = Chars("1.0")
  /\ ~lastEnsure.updated
  /\ wsTemplate[lastEnsure.mode] = lastEnsure.before

\* C6: whatever ensureModeTemplate and refreshTemplates calls were made,
\* the template the user saved last is still on disk, as the workspace
\* copy or as its .backup sibling.
C6_UserEditsSurvive ==
  \A m \in TemplateModes :
    userLast[m] # NoFile =>
      wsTemplate[m] = userLast[m] \/ backupFile[m] = userLast[m]

\* C7: readFile of a document whose file was deleted returns the
\* document's template and leaves the file recreated with it.
C7_SelfHealingRead ==
  (last.op = "readFile" /\ last.wasMissing) =>
    /\ last.ret = Template(last.path)
    /\ disk[last.path] = Template(last.path)

\* A file that had been deleted on disk was read.
C7_Witness ==
  /\ last.op = "readFile"
  /\ last.wasMissing
  /\ last.wasDeleted
  /\ disk[last.path] = Template(last.path)

\* C8: a further initialise() changes the content of no document whose
\* file existed with content other than its template.
C8_IdempotentInitialise ==
  [][ (initDone /\ last'.op = "initialise" /\ ops' = ops + 1) =>
        \A p \in MemoryFile :
          (disk[p] # Missing /\ disk[p] # Template(p)) => disk'[p] = disk[p]
    ]_vars

\* The operations of the user, outside the extension.
ExternalOps == {"ExternalEdit", "ExternalDelete"}

\* The operations through which the store writes a document: write and the
\* appends, and the reads, which recreate a missing file through writeFile.
StoreWritePaths == StoreWrites \cup {"readFile", "getFileContent",
                                     "appendToFile_read", "appendLine_read",
                                     "handleFileChange", "logDecision_read",
                                     "logDecision", "updateActiveContext"}

\* C9: every change the extension makes to a document file is made by the
\* store's write or append operations and is reflected in the cache.
C9_SoleMutator ==
  [][ \A p \in MemoryFile :
        (disk'[p] # disk[p] /\ last'.op \notin ExternalOps) =>
          /\ last'.op \in StoreWritePaths
          /\ fileCache'[p] = disk'[p]
    ]_vars

\* C10: setMode(id) returns true and makes id the active mode for the four
\* mode ids; for every other id it returns false and leaves the mode as
\* it was.
C10_SetMode ==
  lastSetMode # NoCall =>
    IF lastSetMode.arg \in Range(MODE_IDS)
    THEN lastSetMode.ret /\ currentMode = lastSetMode.arg
    ELSE ~lastSetMode.ret /\ currentMode = lastSetMode.before

\* C11: the active mode is ask at startup and, whatever setMode and
\* detectMode calls were made, it is one of the four modes architect, code,
\* ask and debug.
C11_OneActiveMode ==
  /\ modeCalls = 0 => currentMode = "ask"
  /\ currentMode \in Range(MODE_IDS)

\* The trigger occurs somewhere in the text.
Occurs(trigger, text) ==
  \E pos \in 1..(Len(text) - Len(trigger) + 1) :
    \A k \in 1..Len(trigger) : text[pos + k - 1] = trigger[k]

\* The positions, in declaration order, of the modes with a trigger that
\* occurs in the lower-cased text.
MatchingModes(text) ==
  {i \in 1..Len(MODE_IDS) :
     \E k \in 1..Len(triggers(MODE_IDS[i])) :
       Occurs(triggers(MODE_IDS[i])[k], toLowerCase(text))}

C13_TestSentences ==
  lastDetect.ran =>
    /\ lastDetect.input = Text_understandArchitecture => lastDetect.ret = "ask"
    /\ lastDetect.input = Text_designStructure => lastDetect.ret = "architect"
    /\ lastDetect.input = Text_implementLogin => lastDetect.ret = "code"
    /\ lastDetect.input = Text_bugAuthentication => lastDetect.ret = "debug"

\* C14: once dispose() has returned, no observer and no timeout is live,
\* and as long as watchFiles is not called no fileChanged event is emitted;
\* a further dispose() changes nothing.
C14_Dispose ==
  [][ /\ disposals' > 0 =>
           /\ watchers' = <<>>
           /\ timers' = {}
           /\ \A f \in MemoryFile : pendingChanges'[f] = NoTimer
      /\ (disposals > 0 /\ disposals' > 0) =>
           /\ fileChanged' = fileChanged
           /\ watchers' = watchers
           /\ timers' = timers
           /\ pendingChanges' = pendingChanges ]_vars

\* dispose() was called twice in a row, it cancelled the timeout of a
\* burst, and the time that timeout was due has passed without an event.
C14_Witness ==
  /\ disposals = 2
  /\ \E f \in OpFiles :
       /\ burst[f].disposed
       /\ burst[f].events = 0
       /\ now >= lastRaw[f] + BatchDelay

\* C15: after watchFiles there is exactly one observer for each path of
\* the call and no other observer, however many calls came before.
C15_WatchReplaces ==
  watchCalls > 0 =>
    /\ Len(watchers) = Len(ALL_FILE_TEMPLATES)
    /\ \A p \in Range(ALL_FILE_TEMPLATES) :
         Cardinality({i \in 1..Len(watchers) : watchers[i] = p}) = 1

\* watchFiles was called while the observers of an earlier call were live.
C15_Witness ==
  /\ watchCalls = 2
  /\ Len(watchers) = Len(ALL_FILE_TEMPLATES)

\* The timeout of f's burst is pending after n raw notifications, and the
\* clock of the model reaches the time it is due.
BurstPending(f, n) ==
  /\ pendingChanges[f] # NoTimer
  /\ rawCount = n
  /\ lastRaw[f] + BatchDelay <= MaxTicks * TickMs

\* C17: a burst on a watched path is eventually followed by a fileChanged
\* event for the path, unless a further raw notification arrives or
\* stopWatching disposes of the watcher; a renewed watchFiles (as
\* initialise() makes it) is no excuse.
C17_EventAfterQuietPeriod ==
  \A f \in OpFiles : \A n \in 1..MaxRaw :
    BurstPending(f, n) ~>
      (burst[f].events > 0 \/ disposals > 0 \/ rawCount > n)

\* C16: when the store has handled a fileChanged event, the cache entry of
\* the event's path is the content on disk, the summary cached for it is
\* the summary of that content, and the contentChanged notification
\* emitted carries the path, that summary and the watcher's timestamp.
C16_ContentChanged ==
  last.op = "handleFileChange" =>
    /\ fileCache[last.file] = disk[last.file]
    /\ summaryCache[last.file] = summarise(disk[last.file], 100)
    /\ last.emitted = [event |-> "contentChanged", file |-> last.file,
                       summary |-> summaryCache[last.file],
                       timestamp |-> last.timestamp]

\* The event was for a document the user had edited on disk after the
\* store cached and summarised it.
C16_Witness ==
  /\ last.op = "handleFileChange"
  /\ last.cacheBefore # NoEntry
  /\ last.cacheBefore # last.diskBefore
  /\ disk[last.file] = UserText
  /\ summaryCache[last.file] = UserText

\* The lines of a document.
LinesOf(content) == splitLines(TextOf(content), "")

\* The positions, from 1, of the goals headers of a document, and of the
\* lines after position s that open a section.
GoalsHeaders(lines) ==
  {i \in 1..Len(lines) : trim(lines[i]) = "## Current Goals"}

SectionsAfter(lines, s) ==
  {i \in (s + 1)..Len(lines) : startsWithSectionMark(lines[i])}

Least(S) == CHOOSE i \in S : \A j \in S : i <= j

\* C18: updateActiveContext on a document with the goals section leaves
\* every line up to and including the section header and every line from
\* the next section header on as it was, and puts the new goals between.
C18_OnlyGoalsReplaced ==
  (last.op = "updateActiveContext" /\ GoalsHeaders(LinesOf(last.read)) # {}) =>
    LET old == LinesOf(last.read)
        new == LinesOf(disk[ActiveContextFile])
        s == Least(GoalsHeaders(old))
        oldRest == SectionsAfter(old, s)
        newRest == SectionsAfter(new, s) IN
    /\ ~last.threw
    /\ SubSeq(new, 1, s) = SubSeq(old, 1, s)
    /\ oldRest = {} =>
         /\ newRest = {}
         /\ SubSeq(new, s + 1, Len(new))
              = <<"">> \o newGoals(last.context) \o <<"">>
    /\ oldRest # {} =>
         /\ newRest # {}
         /\ SubSeq(new, Least(newRest), Len(new))
              = SubSeq(old, Least(oldRest), Len(old))
         /\ SubSeq(new, s + 1, Least(newRest) - 1)
              = <<"">> \o newGoals(last.context) \o <<"">>

\* The goals of a document the user wrote, with lines before the header
\* and a section after the goals, were replaced by two new goals.
C18_Witness ==
  /\ last.op = "updateActiveContext"
  /\ ~last.threw
  /\ GoalsHeaders(LinesOf(last.read)) = {2}
  /\ SectionsAfter(LinesOf(last.read), 2) # {}
  /\ Len(newGoals(last.context)) = 2
  /\ disk[ActiveContextFile] # last.diskBefore

\* C19 (as claimed): on a document without the goals section header
\* updateActiveContext throws and leaves the document as it was on disk
\* and in the cache.
C19_Original ==
  (last.op = "updateActiveContext" /\ GoalsHeaders(LinesOf(last.read)) = {}) =>
    /\ last.threw
    /\ disk[ActiveContextFile] = last.diskBefore
    /\ fileCache[ActiveContextFile] = last.cacheBefore

\* C19 (amended): on a document that is not blank and has no goals
\* section header updateActiveContext throws and leaves the file as it
\* was; the cache entry is the content of the file, which the call read.
C19_MissingSection ==
  ( /\ last.op = "updateActiveContext"
    /\ GoalsHeaders(LinesOf(last.read)) = {}
    /\ ~isBlank(last.read) ) =>
    /\ last.threw
    /\ disk[ActiveContextFile] = last.diskBefore
    /\ fileCache[ActiveContextFile] = disk[ActiveContextFile]

\* The call threw on a document the user had saved without the section.
C19_Witness ==
  /\ last.op = "updateActiveContext"
  /\ last.threw
  /\ last.read \in ActiveContextDocs
  /\ disk[ActiveContextFile] = last.read

\* C20: when logDecision has completed, a read of the decision log returns
\* the content the call found followed by one row, and the row holds the
\* date of the call, the decision and the rationale.
C20_DecisionLogRoundTrip ==
  last.op = "logDecision" =>
    LET read == ReadFile(disk, fileCache, DecisionLogFile, FALSE).ret
        n == Len(last.existing)
        row == SubSeq(read, n + 1, Len(read)) IN
    /\ Len(read) > n
    /\ SubSeq(read, 1, n) = last.existing
    /\ {i \in 1..Len(row) : row[i] = " |\n"} = {Len(row)}
    /\ last.call.instant[1] \in Range(row)
    /\ last.call.decision \in Range(row)
    /\ last.call.rationale # "" => last.call.rationale \in Range(row)

\* A second decision was logged after the row of a first one.
C20_Witness ==
  /\ last.op = "logDecision"
  /\ Len(last.existing) > 1
  /\ " |\n" \in Range(last.existing)
  /\ disk[DecisionLogFile] = last.persisted

\* C21: when initialise() has returned without being cancelled, every
\* document of ALL_FILE_TEMPLATES has a cache entry equal to its file.
C21_CacheLoadedByInitialise ==
  (last.op = "initialise" /\ ~last.cancelled) =>
    \A p \in MemoryFile : fileCache[p] = disk[p]

\* The markers of VersionMarkers from which no version can be read, the
\* ones that are versions, and the versions all of whose parts are zero.
UnparseableMarkers == {NoMarker, Chars("beta"), Chars("v2")}

ValidMarkers == VersionMarkers \ UnparseableMarkers

ZeroMarkers == {Chars("0.0.0"), Chars("0")}

\* What the version ordering says of the named versions and of the version
\* given to a template without a readable marker.
NamedVersionCases ==
  /\ (lastCompare.newMarker = Chars("1.2.0")
      /\ lastCompare.oldMarker = Chars("1.1.9")) => lastCompare.ret
  /\ {lastCompare.newMarker, lastCompare.oldMarker}
       = {Chars("1.0"), Chars("1.0.0")} => ~lastCompare.ret
  /\ lastCompare.newMarker \in UnparseableMarkers
       => lastCompare.newVersion = Chars("0.0.0")
  /\ lastCompare.oldMarker \in UnparseableMarkers
       => lastCompare.oldVersion = Chars("0.0.0")
  /\ (lastCompare.newMarker \in UnparseableMarkers
      /\ lastCompare.oldMarker \in ValidMarkers) => ~lastCompare.ret

\* C22 as stated: a template without a readable marker is older than a
\* template with any valid version.
C22_Original ==
  lastCompare.ran =>
    /\ NamedVersionCases
    /\ (lastCompare.newMarker \in ValidMarkers
        /\ lastCompare.oldMarker \in UnparseableMarkers) => lastCompare.ret

\* C22: "1.2.0" is newer than "1.1.9"; "1.0" and "1.0.0" are not newer than
\* one another; a template without a readable marker has version "0.0.0",
\* is never newer than a template with a valid version, is older than every
\* valid version with a part other than zero, and is not older than a
\* valid version whose parts are all zero.
C22_VersionOrdering ==
  lastCompare.ran =>
    /\ NamedVersionCases
    /\ (lastCompare.newMarker \in ValidMarkers \ ZeroMarkers
        /\ lastCompare.oldMarker \in UnparseableMarkers) => lastCompare.ret
    /\ (lastCompare.newMarker \in ZeroMarkers
        /\ lastCompare.oldMarker \in UnparseableMarkers) => ~lastCompare.ret

\* A template marked "0" was compared with a template without a marker.
C22_Witness ==
  /\ lastCompare.ran
  /\ lastCompare.newMarker = Chars("0")
  /\ lastCompare.oldMarker = NoMarker
  /\ lastCompare.oldVersion = Chars("0.0.0")
  /\ ~lastCompare.ret

\* C23 as stated: checkForTemplateUpdates returns true exactly when some
\* mode's workspace template is absent or behind the bundled version.
C23_Original ==
  lastCheck.ran =>
    (lastCheck.ret <=>
       \E m \in TemplateModes :
         \/ lastCheck.ws[m] = NoFile
         \/ BundledGreater(m, lastCheck.ws[m]))

\* C23: checkForTemplateUpdates returns true exactly when some mode's
\* workspace template is absent, is behind the bundled version, or exists
\* and cannot be read; it returns false when every template exists, can be
\* read and has a version equal to or newer than the bundled one.
C23_CheckForUpdates ==
  lastCheck.ran =>
    (lastCheck.ret <=>
       \/ \E m \in TemplateModes :
            \/ lastCheck.ws[m] = NoFile
            \/ BundledGreater(m, lastCheck.ws[m])
       \/ /\ lastCheck.failMode \in TemplateModes
          /\ lastCheck.ws[lastCheck.failMode] # NoFile)

\* Every template was present and none behind, one could not be read, and
\* the call answered true.
C23_Witness ==
  /\ lastCheck.ran
  /\ lastCheck.failMode \in TemplateModes
  /\ \A m \in TemplateModes :
       /\ lastCheck.ws[m] # NoFile
       /\ ~BundledGreater(m, lastCheck.ws[m])
  /\ lastCheck.ret

\* The modes a list of file names of the given suffix names.
ModesNamed(names, suffix) ==
  {m \in TemplateModes : \E i \in 1..Len(names) : names[i] = m \o suffix}

\* C24: ensureAllModeTemplates has run ensureModeTemplate for each of the
\* four modes; every mode is in exactly one of the lists updated and
\* skipped, once; a mode the backups list names had a workspace copy and
\* that copy is the .backup file the call left, and the .backup file of a
\* mode the list does not name is as the call found it.
C24_RefreshLists ==
  lastRefresh.ran =>
    /\ [i \in 1..Len(lastRefresh.steps) |-> lastRefresh.steps[i].mode]
         = TemplateModeOrder
    /\ Len(lastRefresh.updated) + Len(lastRefresh.skipped)
         = Cardinality(TemplateModes)
    /\ ModesNamed(lastRefresh.updated, ".chatmode.md")
         \cup ModesNamed(lastRefresh.skipped, ".chatmode.md") = TemplateModes
    /\ ModesNamed(lastRefresh.updated, ".chatmode.md")
         \cap ModesNamed(lastRefresh.skipped, ".chatmode.md") = {}
    /\ Len(lastRefresh.backups)
         = Cardinality(ModesNamed(lastRefresh.backups, ".chatmode.md.backup"))
    /\ \A i \in 1..Len(lastRefresh.steps) :
         LET step == lastRefresh.steps[i] IN
         IF step.mode \in ModesNamed(lastRefresh.backups, ".chatmode.md.backup")
         THEN step.before # NoFile /\ step.backupAfter = step.before
         ELSE step.backupAfter = step.backupBefore

\* A call that updated one template after backing it up, created others
\* and failed to write one.
C24_Witness ==
  /\ lastRefresh.ran
  /\ lastRefresh.backups # <<>>
  /\ lastRefresh.updated # <<>>
  /\ lastRefresh.skipped # <<>>
  /\ Len(lastRefresh.updated) > Len(lastRefresh.backups)

C26_CreateWithoutBackup ==
  (lastEnsure.ran /\ lastEnsure.before = NoFile) =>
    /\ ~lastEnsure.backupCreated
    /\ backupFile[lastEnsure.mode] = lastEnsure.backupBefore
    /\ lastEnsure.fail # "write" =>
         /\ lastEnsure.updated
         /\ wsTemplate[lastEnsure.mode] = getBundledTemplate(lastEnsure.mode)

\* A call that was not forced created a missing template.
C26_Witness ==
  /\ lastEnsure.ran
  /\ lastEnsure.before = NoFile
  /\ ~lastEnsure.force
  /\ wsTemplate[lastEnsure.mode] = getBundledTemplate(lastEnsure.mode)
  /\ backupFile[lastEnsure.mode] = NoFile

\* The latest tool invocation was one of the switch-mode tool.
SwitchModeToolReturned ==
  /\ lastTool.ran
  /\ lastTool.tool \in {"SwitchModeTool", "SwitchModeTool_chat"}
  /\ lastTool.outcome = "returned"

\* C27: after the switch-mode tool has been invoked with a valid mode id m
\* and has returned, the Mode Engine's current mode is m.
C27_SwitchedToValidMode ==
  (SwitchModeToolReturned /\ lastTool.input \in Range(MODE_IDS))
    => currentMode = lastTool.input

\* The text of the latest result signals a failure.
SignalsFailure(text) ==
  includes(text, InvalidWord) \/ includes(text, <<FailureMark>>)

\* C28: the switch-mode tool invoked with an id that is none of the four
\* modes returns a text that signals the failure (it contains 'Invalid' or
\* the failure mark) and never a success message.
C28_InvalidModeRejected ==
  (SwitchModeToolReturned /\ lastTool.input \notin Range(MODE_IDS))
    => /\ SignalsFailure(lastTool.text)
       /\ ~includes(lastTool.text, <<SuccessMark>>)

\* C29: every tool invocation returns a result, a failure during the
\* tool's initialization step included: no exception escapes to the host.
C29_ToolsAlwaysReturn ==
  lastTool.ran => lastTool.outcome = "returned" /\ lastTool.text # <<>>

\* C30: every document a tool writes while mode m is active is one of m's
\* writeFiles.
C30_WritesWithinAllowList ==
  lastTool.ran => lastTool.writes \subseteq writeFiles(lastTool.before)

\* A success result of the switch-mode tool for a valid id leaves that mode
\* current.
SwitchSuccessMeansSwitched ==
  (SwitchModeToolReturned /\ lastTool.input \in Range(MODE_IDS)
     /\ includes(lastTool.text, <<SuccessMark>>))
    => currentMode = lastTool.input

\* The six documents the specification enumerates: the documents of
\* ALL_FILE_TEMPLATES without the architect document.
SixDocuments ==
  {"memory-bank/activeContext.md", "memory-bank/productContext.md",
   "memory-bank/progress.md", "memory-bank/decisionLog.md",
   "memory-bank/projectBrief.md", "memory-bank/systemPatterns.md"}

\* The current mode is one of the four modes and was set by setMode.
ModeSetTo(m) == currentMode = m /\ lastSetMode.ret /\ lastSetMode.arg = m

\* C31 as stated: the read list and the write list of the current mode are
\* both non-empty and hold only paths of the six documents.
C31_Original ==
  currentMode \in Range(MODE_IDS)
    => /\ readFiles(currentMode) # <<>>
       /\ writeFiles(currentMode) # {}
       /\ Range(readFiles(currentMode)) \subseteq SixDocuments
       /\ writeFiles(currentMode) \subseteq SixDocuments

\* C31: the read list of the current mode is non-empty, the write list is
\* empty for ask and non-empty for the other three modes, and both hold only
\* paths of the six documents.
C31_ModeLists ==
  currentMode \in Range(MODE_IDS)
    => /\ readFiles(currentMode) # <<>>
       /\ (writeFiles(currentMode) = {}) <=> (currentMode = "ask")
       /\ Range(readFiles(currentMode)) \subseteq SixDocuments
       /\ writeFiles(currentMode) \subseteq SixDocuments

C31_Witness == ModeSetTo("architect") /\ lastSetMode.before = "ask"

\* The document files that exist in the memory-bank directory.
ExistingDocuments(d) == {p \in DOMAIN d : d[p] # Missing}

\* A step of initialise() that ran to its end on a directory without any
\* document file.
InitialiseOnEmpty ==
  /\ ops' = ops + 1
  /\ last'.op = "initialise"
  /\ ~last'.cancelled
  /\ ExistingDocuments(disk) = {}

C33_UnlistedPathRaises ==
  lastGet.ran => lastGet.outcome = "threw"

\* C35: getSummaries returns one pair per enumerated document, in their
\* order, and the length of every summary is at most four times the
\* per-document share of the budget.
C35_SummariesWithinShare ==
  lastSummaries.ran =>
    /\ Len(lastSummaries.out) = Len(ALL_FILE_TEMPLATES)
    /\ \A i \in 1..Len(lastSummaries.out) :
         /\ lastSummaries.out[i].path = ALL_FILE_TEMPLATES[i]
         /\ lastSummaries.out[i].length
              <= 4 * (lastSummaries.totalBudget \div Len(ALL_FILE_TEMPLATES))

\* C34: a successful updateActiveContext call emits a 'contextUpdated'
\* event to the listeners of the Document Store.
C34_ContextUpdatedEmitted ==
  (last.op = "updateActiveContext" /\ ~last.threw)
    => last.emitted.event = "contextUpdated"

\* C36: after a synchronization of all modes that was not forced and met
\* no file error, checkForTemplateUpdates() on the files it left returns
\* false, and a synchronization of the same kind repeated on those files
\* reports no updated template and no backup.
C36_SynchronizationConverges ==
  /\ (/\ Settled
      /\ lastCheck.ran
      /\ lastCheck.failMode = "none"
      /\ lastCheck.ws = lastSync.wsAfter)
       => ~lastCheck.ret
  /\ (/\ lastSync.ran
      /\ lastSync.afterSettled
      /\ ~lastSync.force
      /\ ~lastSync.failed
      /\ lastSync.returned)
       => (lastSync.updated = <<>> /\ lastSync.backups = <<>>)

\* A synchronization that replaced an outdated template, keeping a backup,
\* is repeated at once, and the check that follows returns false.
C36_Witness ==
  /\ Settled
  /\ lastSync.afterSettled
  /\ lastSync.by = "refreshTemplates"
  /\ lastSync.previousBackups # <<>>
  /\ lastSync.updated = <<>>
  /\ lastCheck.ran
  /\ lastCheck.failMode = "none"
  /\ ~lastCheck.ret

\* C40: a document event that reaches an initialized provider that is not
\* disposed calls refreshParticipants().
C40_EveryEventRefreshes ==
  (lastEvent.ran /\ lastEvent.initialized /\ ~lastEvent.disposed)
    => lastEvent.refreshed

\* The live timeouts of the debounce of one file.
TimersOf(file) == {t \in timers : t.file = file}

\* C37: a file has at most one live debounce timeout, and the pending-timer
\* record holds the file exactly while it has one, whose handle it keeps.
C37_OneLiveTimerPerFile ==
  \A file \in MemoryFile :
    /\ Cardinality(TimersOf(file)) <= 1
    /\ (pendingChanges[file] # NoTimer) <=> (TimersOf(file) # {})
    /\ \A t \in TimersOf(file) : pendingChanges[file] = t.id

\* A second raw notification of a burst has replaced the timeout of the
\* first, and the new timeout is pending.
C37_Witness ==
  \E file \in MemoryFile :
    /\ burst[file].len >= 2
    /\ pendingChanges[file] # NoTimer
    /\ Cardinality(TimersOf(file)) = 1

\* C38: a readFile call on a document that exists on disk leaves the
\* content of the document as it was, whether or not the read fails.
C38_ReadKeepsExistingFile ==
  [][\A path \in OpFiles, ioError \in BOOLEAN :
       (readFile(path, ioError) /\ disk[path] # Missing)
         => disk'[path] = disk[path]]_vars

\* C39: in the lists a call of ensureAllModeTemplates returned, every
\* backup belongs to a mode whose template is in the updated list, and no
\* mode is both in the skipped list and in the backups list.
C39_BackupsOfUpdatedOnly ==
  lastRefresh.ran =>
    \A mode \in TemplateModes :
      BackupFileName(mode) \in Range(lastRefresh.backups) =>
        /\ TemplateFileName(mode) \in Range(lastRefresh.updated)
        /\ TemplateFileName(mode) \notin Range(lastRefresh.skipped)

====
